---- MODULE Spec2Model ----
(***************************************************************************)
(* A model of the map.gerege.ai edge functions (Supabase/Deno) and of the  *)
(* SQL functions they call.  Every request handler is a small state        *)
(* machine whose steps are the synchronous stretches of code between two   *)
(* awaits.  JSON values are tagged records, strings are sequences of       *)
(* characters, confidence scores are kept in hundredths.                   *)
(***************************************************************************)
EXTENDS Integers, Sequences, FiniteSets, TLC

VARIABLES
    pc,            \* position of the handler serving the current request
    request,       \* the parsed request body (and the Authorization header)
    i,             \* batch-geocode: the loop index (0-based, as in the code)
    results,       \* batch-geocode: ResultItem[]
    rowsToInsert,  \* batch-geocode: GeocodedRow[]
    created_by,    \* the resolved calling user, or null
    response,      \* the HTTP response of the request (status 0: none yet)
    geo_registry,  \* the geo_registry table, in insertion order
    calls,         \* the external calls the request has issued, in order
    inFlight,      \* number of provider calls awaiting their answer
    elapsed,       \* ms since the last provider call of the request ended (-1: none yet)
    callGap,       \* value of elapsed when the provider call in flight was started
    answer,        \* geocode, reverse-geocode: the provider's answer being stored
    geofences,     \* the geofences table, in insertion order
    peer,          \* batch-geocode: a second request served at the same time
    cancelled      \* batch-geocode: the caller has aborted the request

vars == << pc, request, i, results, rowsToInsert, created_by, response,
           geo_registry, calls, inFlight, elapsed, callGap, answer, geofences,
           peer, cancelled >>

\* The state only batch-geocode uses.
batchVars == << i, results, rowsToInsert, inFlight, elapsed, callGap, peer, cancelled >>

(***************************************************************************)
(* Bounds of the model.                                                    *)
(***************************************************************************)
MaxLen == 3          \* longest address list enumerated element by element
MaxJitter == 1       \* a timer may fire this many ms late
MaxRows == 3         \* most records of a registry to search
MaxFences == 3       \* most fences of the geofences table

(***************************************************************************)
(* Program constants.                                                      *)
(***************************************************************************)
MAX_BATCH_SIZE == 50
NOMINATIM_DELAY_MS == 1100
MetersPerDegree == 111320

(***************************************************************************)
(* Coordinates.  A coordinate is a whole number of thousandths of a        *)
(* degree.  The places of the model lie on one meridian (or a quarter of   *)
(* the globe away from it), where the distance between two places is the   *)
(* difference of their latitudes, MetersPerDegree to the degree; lengths   *)
(* are kept in millimetres.                                                *)
(***************************************************************************)
UnitsPerDegree == 1000
MmPerUnit == (MetersPerDegree * 1000) \div UnitsPerDegree
Degrees(d) == d * UnitsPerDegree
Meters(m) == m * 1000
CenterLat == 47918
Meridian == 106918

(***************************************************************************)
(* JSON values.                                                            *)
(***************************************************************************)
JStr(cs) == [type |-> "string", chars |-> cs]
JNum(cs) == [type |-> "number", chars |-> cs]
JNull == [type |-> "null", chars |-> << >>]
Num(n) == [type |-> "number", val |-> n]
JUndefined == [type |-> "undefined", chars |-> << >>]

\* typeof v === "string"
IsString(v) == v.type = "string"

\* typeof v === "number"
IsNumber(v) == v.type = "number"

\* Boolean(v) for the values above: only a non-empty string is truthy here
\* (the numbers of the model are non-zero).
Truthy(v) ==
    \/ v.type = "string" /\ Len(v.chars) > 0
    \/ v.type = "number"

\* v ?? dflt
Coalesce(v, dflt) == IF v.type \in {"undefined", "null"} THEN dflt ELSE v

RECURSIVE TrimStart(_)
TrimStart(cs) ==
    IF cs # << >> /\ Head(cs) = " " THEN TrimStart(Tail(cs)) ELSE cs

RECURSIVE TrimEnd(_)
TrimEnd(cs) ==
    IF cs # << >> /\ cs[Len(cs)] = " " THEN TrimEnd(SubSeq(cs, 1, Len(cs) - 1)) ELSE cs

\* String.prototype.trim
Trim(cs) == TrimEnd(TrimStart(cs))

(***************************************************************************)
(* The geocoding provider (Nominatim).  An address object has optional     *)
(* keys: an absent key reads as undefined.  The coordinates of a candidate *)
(* are whole numbers here; parseFloat reads the number its string spells.  *)
(***************************************************************************)
ScoredFields == << "house_number", "road", "city", "state", "postcode", "country" >>
AddressFields == { ScoredFields[k] : k \in 1..Len(ScoredFields) } \cup { "country_code" }

Text == JStr(<< "x" >>)
EmptyText == JStr(<< >>)

FullAddress == [f \in AddressFields |-> Text]
PartialAddress ==
    [f \in AddressFields |->
        IF f \in {"city", "country", "country_code"} THEN Text
        ELSE IF f = "road" THEN EmptyText
        ELSE JUndefined]

Candidate(lat, lon, address) ==
    [lat |-> lat, lon |-> lon, display_name |-> JStr(<< "f" >>), address |-> address]

\* What one provider call can come to: the fetch rejects (network failure),
\* the status is not 2xx, the body is not the JSON the code expects (reading
\* it throws), or the body is a list of at most one candidate (limit=1).
SearchOutcomes ==
    { [kind |-> k, list |-> << >>] : k \in {"throw", "non2xx", "badjson", "ok"} }
    \cup { [kind |-> "ok", list |-> << Candidate(CenterLat, Meridian, a) >>] : a \in {FullAddress, PartialAddress} }

(***************************************************************************)
(* batch-geocode/index.ts: the pure helpers.                               *)
(***************************************************************************)
buildStandardized(address, formatted) ==
    [house_number |-> Coalesce(address["house_number"], JNull),
     road         |-> Coalesce(address["road"], JNull),
     city         |-> Coalesce(address["city"], JNull),
     state        |-> Coalesce(address["state"], JNull),
     postcode     |-> Coalesce(address["postcode"], JNull),
     country      |-> Coalesce(address["country"], JNull),
     country_code |-> Coalesce(address["country_code"], JNull),
     formatted    |-> formatted]

\* parseFloat((num / den).toFixed(2)), in hundredths: toFixed takes the
\* nearest hundredth and, of two equally near, the larger.
ToFixed2(num, den) == (200 * num + den) \div (2 * den)

computeConfidence(address) ==
    LET fields == [k \in 1..Len(ScoredFields) |-> address[ScoredFields[k]]]
        filled == Cardinality({ k \in 1..Len(fields) : Truthy(fields[k]) })
    IN  ToFixed2(filled, Len(fields))

\* Mutant: the address is not trimmed before it is tested.
InvalidAddressUntrimmed(address) == ~IsString(address) \/ address.chars = << >>

\* typeof address !== "string" || address.trim() === ""
InvalidAddress(address) == ~IsString(address) \/ Trim(address.chars) = << >>

\* Mutant: the delay is skipped before the second address too.
NeedsDelayFromThird(idx) == idx > 1

\* if (i > 0) await sleep(NOMINATIM_DELAY_MS)
NeedsDelay(idx) == idx > 0

ErrorItem(address, msg) ==
    [address |-> address, status |-> "error", error |-> msg]

NotFoundItem(address) == [address |-> address, status |-> "not_found"]

SuccessItem(address, top) ==
    [address |-> address, status |-> "success",
     data |-> [standardized_address |-> buildStandardized(top.address, top.display_name),
               lat |-> top.lat, lon |-> top.lon,
               confidence_score |-> computeConfidence(top.address)]]

GeocodedRow(address, top, source, user) ==
    [raw_address          |-> address,
     standardized_address |-> buildStandardized(top.address, top.display_name),
     coordinates          |-> [lon |-> top.lon, lat |-> top.lat],
     source               |-> Coalesce(source, JStr(<< "nominatim_batch" >>)),
     confidence_score     |-> computeConfidence(top.address),
     created_by           |-> user]

CountStatus(items, st) == Cardinality({ k \in 1..Len(items) : items[k].status = st })

Summary(addresses, items, inserted) ==
    [total     |-> Len(addresses),
     succeeded |-> CountStatus(items, "success"),
     not_found |-> CountStatus(items, "not_found"),
     failed    |-> CountStatus(items, "error"),
     inserted  |-> inserted]

(***************************************************************************)
(* The record store: supabase.from("geo_registry").insert(rows).  The      *)
(* table assigns id and created_at; one insert is one SQL statement, so    *)
(* it stores all of its rows or none.                                      *)
(***************************************************************************)
Stored(row, n) ==
    [id |-> n, created_at |-> n] @@ row

RECURSIVE InsertRows(_, _)
InsertRows(table, rows) ==
    IF rows = << >> THEN table
    ELSE InsertRows(Append(table, Stored(Head(rows), Len(table) + 1)), Tail(rows))

\* Mutant: the rows are inserted one statement each, so a failure on the
\* last one leaves the earlier ones stored.
BulkInsertRowByRow(table, rows, ok) ==
    IF ok THEN InsertRows(table, rows)
    ELSE InsertRows(table, SubSeq(rows, 1, Len(rows) - 1))

BulkInsert(table, rows, ok) == IF ok THEN InsertRows(table, rows) ELSE table

(***************************************************************************)
(* Requests.                                                               *)
(***************************************************************************)
AddressValues ==
    { JStr(<< "U", "B" >>), JStr(<< >>), JStr(<< " " >>), JNum(<< "4", "2" >>) }

Repeat(v, n) == [k \in 1..n |-> v]

\* The "addresses" of a request body: not an array at all, every list of at
\* most MaxLen values, and two long lists around the size limit.
AddressLists ==
    { [isArray |-> FALSE, items |-> << >>] }
    \cup { [isArray |-> TRUE, items |-> l] :
             l \in UNION { [1..n -> AddressValues] : n \in 0..MaxLen } }
    \cup { [isArray |-> TRUE, items |-> Repeat(JStr(<< >>), n)] :
             n \in {MAX_BATCH_SIZE, MAX_BATCH_SIZE + 1} }

Sources == { JUndefined, JStr(<< "csv_import" >>) }

\* supabase.auth.getUser(): a user, no user, or the call throws.
UserOutcomes == { "user", "none", "throw" }

NoResponse == [status |-> 0, body |-> [none |-> TRUE]]

ExistingRow ==
    Stored(GeocodedRow(JStr(<< "E" >>), Candidate(CenterLat + 25, Meridian, FullAddress), JUndefined, JNull), 1)

InitialRegistries == { << >>, << ExistingRow >> }

\* The local state of a second batch-geocode request before it arrives.
PeerIdle ==
    [pc |-> "idle", addresses |-> << >>, source |-> JUndefined, i |-> 0,
     results |-> << >>, rowsToInsert |-> << >>, created_by |-> JNull,
     response |-> NoResponse, calls |-> << >>, elapsed |-> -1, callGap |-> -1]

\* The geofences table of a deployment: empty with an empty registry, one
\* fence drawn earlier otherwise.
InitialFences(registry) ==
    IF registry = << >> THEN << >>
    ELSE << [id |-> 1, name |-> JStr(<< "F" >>), description |-> JNull,
             boundary |-> << << 106900, 47910 >>, << 106930, 47910 >>,
                             << 106930, 47950 >>, << 106900, 47950 >>,
                             << 106900, 47910 >> >>,
             metadata |-> JNull, created_by |-> JNull, created_at |-> 1] >>

Init ==
    /\ pc = "idle"
    /\ request = [fn |-> "none"]
    /\ i = 0
    /\ results = << >>
    /\ rowsToInsert = << >>
    /\ created_by = JNull
    /\ response = NoResponse
    /\ geo_registry \in InitialRegistries
    /\ calls = << >>
    /\ inFlight = 0
    /\ elapsed = -1
    /\ callGap = -1
    /\ answer = JNull
    /\ geofences = InitialFences(geo_registry)
    /\ peer = PeerIdle
    /\ cancelled = FALSE

Respond(status, body) ==
    /\ response' = [status |-> status, body |-> body]
    /\ pc' = "done"

\* An external call is issued; it is pending until its answer is handled.
Issued(log, svc, idx) == Append(log, [svc |-> svc, idx |-> idx, outcome |-> "pending"])

Call(svc, idx) == calls' = Issued(calls, svc, idx)

\* The pending call (the last one issued) is answered.
Settled(outcome) == [calls EXCEPT ![Len(calls)].outcome = outcome]

Settle(outcome) == calls' = Settled(outcome)

\* The user getUser resolved.
UserOf(outcome) == IF outcome = "user" THEN JStr(<< "u", "1" >>) ELSE JNull

\* How the code tells the answers of the provider apart.
OutcomeKind(o) ==
    IF o.kind = "ok" THEN (IF Len(o.list) = 0 THEN "empty" ELSE "found") ELSE o.kind

(***************************************************************************)
(* batch-geocode/index.ts: the handler.                                    *)
(***************************************************************************)
\* Lines 79-107 up to the first await after req.json(): the two batch-level
\* checks, then either the identity call is issued or the loop is entered.
BatchRequest(addresses, source, authHeader) ==
    /\ pc = "idle"
    /\ request' = [fn |-> "batch-geocode", addresses |-> addresses.items,
                   source |-> source, authHeader |-> authHeader]
    /\ IF ~addresses.isArray \/ Len(addresses.items) = 0
       THEN /\ Respond(400, [error |-> "'addresses' must be a non-empty array of strings"])
            /\ UNCHANGED calls
       ELSE IF Len(addresses.items) > MAX_BATCH_SIZE
       THEN /\ Respond(400, [error |-> "Batch size exceeds maximum"])
            /\ UNCHANGED calls
       ELSE IF authHeader
       THEN /\ pc' = "b_auth"
            /\ Call("identity", -1)
            /\ UNCHANGED response
       ELSE /\ pc' = "b_loop"
            /\ UNCHANGED << response, calls >>
    /\ UNCHANGED << i, results, rowsToInsert, created_by, geo_registry,
                    inFlight, elapsed, callGap >>
    /\ UNCHANGED << answer, geofences, peer, cancelled >>

\* Lines 105-106: getUser answers (or throws, which the outer catch turns
\* into a 500).
BatchGetUser(outcome) ==
    /\ pc = "b_auth"
    /\ IF outcome = "throw"
       THEN /\ Respond(500, [error |-> "identity"])
            /\ UNCHANGED created_by
       ELSE /\ created_by' = UserOf(outcome)
            /\ pc' = "b_loop"
            /\ UNCHANGED response
    /\ Settle(outcome)
    /\ UNCHANGED << request, i, results, rowsToInsert, geo_registry,
                    inFlight, elapsed, callGap >>
    /\ UNCHANGED << answer, geofences, peer, cancelled >>

\* Mutant: unshift instead of push.
PushFront(items, item) == << item >> \o items

\* results.push(item)
Push(items, item) == Append(items, item)

\* Mutant: the catch block records nothing.
CatchPushLost(items, address) == items

\* catch { results.push(...) } of lines 169-171
CatchPush(items, address) ==
    Push(items, ErrorItem(address, "Unexpected geocoding failure"))

\* Mutant: the insert is issued even with no row to insert.
NeedsInsertAlways(rows) == TRUE

\* if (rowsToInsert.length > 0)
NeedsInsert(rows) == Len(rows) > 0

\* The body of the 200 response, lines 197-206
SummaryBody(addresses, items, inserted) ==
    [summary |-> Summary(addresses, items, inserted), results |-> items]

\* The body of the 500 response of a failed insert, lines 185-189
InsertFailureBody(items) ==
    [error |-> "Geocoding succeeded but database insert failed", results |-> items]

\* The fetch of line 128 is issued: one more provider call is in flight.
StartFetch ==
    /\ pc' = "b_fetch"
    /\ Call("provider", i)
    /\ inFlight' = inFlight + 1

\* Lines 113-122 and 174-208: one pass of the loop head up to its first
\* await, or, after the last address, the end of the request up to the
\* insert.
BatchIterate ==
    /\ pc = "b_loop"
    /\ IF i < Len(request.addresses)
       THEN LET address == request.addresses[i + 1] IN
            IF InvalidAddress(address)
            THEN /\ results' = Push(results, ErrorItem(address, "Invalid address string"))
                 /\ i' = i + 1
                 /\ UNCHANGED << pc, response, calls, inFlight, callGap >>
            ELSE IF NeedsDelay(i)
            THEN /\ pc' = "b_sleep"
                 /\ UNCHANGED << i, results, response, calls, inFlight, callGap >>
            ELSE /\ StartFetch
                 /\ callGap' = elapsed
                 /\ UNCHANGED << i, results, response >>
       ELSE IF NeedsInsert(rowsToInsert)
       THEN /\ pc' = "b_insert"
            /\ Call("store", -1)
            /\ UNCHANGED << i, results, response, inFlight, callGap >>
       ELSE /\ Respond(200, SummaryBody(request.addresses, results, 0))
            /\ UNCHANGED << i, results, calls, inFlight, callGap >>
    /\ UNCHANGED << request, rowsToInsert, created_by, geo_registry, elapsed >>
    /\ UNCHANGED << answer, geofences, peer, cancelled >>

\* Line 122: the timer fires, no earlier than NOMINATIM_DELAY_MS after it
\* was set; the fetch is issued.
BatchWake(late) ==
    /\ pc = "b_sleep"
    /\ elapsed' = (IF elapsed = -1 THEN -1 ELSE elapsed + NOMINATIM_DELAY_MS + late)
    /\ callGap' = elapsed'
    /\ StartFetch
    /\ UNCHANGED << request, i, results, rowsToInsert, created_by, response,
                    geo_registry >>
    /\ UNCHANGED << answer, geofences, peer, cancelled >>

\* Lines 128-171: the provider call ends and its answer is handled.
BatchFetchReturns(outcome) ==
    /\ pc = "b_fetch"
    /\ LET address == request.addresses[i + 1] IN
       /\ results' =
            (CASE outcome.kind \in {"throw", "badjson"} -> CatchPush(results, address)
               [] outcome.kind = "non2xx" ->
                    Push(results, ErrorItem(address, "Geocoding service request failed"))
               [] outcome.kind = "ok" /\ Len(outcome.list) = 0 ->
                    Push(results, NotFoundItem(address))
               [] OTHER -> Push(results, SuccessItem(address, outcome.list[1])))
       /\ rowsToInsert' =
            (IF outcome.kind = "ok" /\ Len(outcome.list) > 0
             THEN Push(rowsToInsert,
                       GeocodedRow(address, outcome.list[1], request.source, created_by))
             ELSE rowsToInsert)
    /\ i' = i + 1
    /\ pc' = "b_loop"
    /\ inFlight' = inFlight - 1
    /\ elapsed' = 0
    /\ Settle(OutcomeKind(outcome))
    /\ UNCHANGED << request, created_by, response, geo_registry, callGap >>
    /\ UNCHANGED << answer, geofences, peer, cancelled >>

\* Lines 182-208: the bulk insert answers.
BatchInsertReturns(ok) ==
    /\ pc = "b_insert"
    /\ geo_registry' = BulkInsert(geo_registry, rowsToInsert, ok)
    /\ IF ok
       THEN Respond(200, SummaryBody(request.addresses, results, Len(rowsToInsert)))
       ELSE Respond(500, InsertFailureBody(results))
    /\ Settle(IF ok THEN "ok" ELSE "error")
    /\ UNCHANGED << request, i, results, rowsToInsert, created_by,
                    inFlight, elapsed, callGap >>
    /\ UNCHANGED << answer, geofences, peer, cancelled >>

(***************************************************************************)
(* batch-geocode/index.ts: a second request, served while the first is.    *)
(* The same handler, its local state in the record peer; the provider and  *)
(* the table are the ones the first request uses.                          *)
(***************************************************************************)
\* Everything a step of the second request leaves alone but the provider
\* calls in flight and the table.
firstVars == << pc, request, i, results, rowsToInsert, created_by, response, calls,
                elapsed, callGap, answer, geofences, cancelled >>

PeerRespond(p, status, body) ==
    [p EXCEPT !.response = [status |-> status, body |-> body], !.pc = "done"]

\* Lines 73-107: the request arrives; the batch-level checks, then getUser.
PeerRequest(addresses, source, authHeader) ==
    /\ peer.pc = "idle"
    /\ LET p == [peer EXCEPT !.addresses = addresses.items, !.source = source] IN
       peer' =
         (IF ~addresses.isArray \/ Len(addresses.items) = 0
          THEN PeerRespond(p, 400, [error |-> "'addresses' must be a non-empty array of strings"])
          ELSE IF Len(addresses.items) > MAX_BATCH_SIZE
          THEN PeerRespond(p, 400, [error |-> "Batch size exceeds maximum"])
          ELSE IF authHeader
          THEN [p EXCEPT !.pc = "b_auth", !.calls = Issued(p.calls, "identity", -1)]
          ELSE [p EXCEPT !.pc = "b_loop"])
    /\ UNCHANGED << firstVars, inFlight, geo_registry >>

\* Lines 105-106: getUser answers.
PeerGetUser(outcome) ==
    /\ peer.pc = "b_auth"
    /\ LET p == [peer EXCEPT !.calls[Len(peer.calls)].outcome = outcome] IN
       peer' =
         (IF outcome = "throw"
          THEN PeerRespond(p, 500, [error |-> "identity"])
          ELSE [p EXCEPT !.created_by = UserOf(outcome), !.pc = "b_loop"])
    /\ UNCHANGED << firstVars, inFlight, geo_registry >>

\* The fetch of line 128 is issued.
PeerStartFetch(p) ==
    [p EXCEPT !.pc = "b_fetch", !.calls = Issued(p.calls, "provider", p.i),
              !.callGap = p.elapsed]

\* Lines 113-122 and 174-208: one pass of the loop head, or the end of the
\* request up to the insert.
PeerIterate ==
    /\ peer.pc = "b_loop"
    /\ IF peer.i < Len(peer.addresses)
       THEN LET address == peer.addresses[peer.i + 1] IN
            IF InvalidAddress(address)
            THEN /\ peer' = [peer EXCEPT
                               !.results = Push(peer.results,
                                                ErrorItem(address, "Invalid address string")),
                               !.i = peer.i + 1]
                 /\ UNCHANGED inFlight
            ELSE IF NeedsDelay(peer.i)
            THEN /\ peer' = [peer EXCEPT !.pc = "b_sleep"]
                 /\ UNCHANGED inFlight
            ELSE /\ peer' = PeerStartFetch(peer)
                 /\ inFlight' = inFlight + 1
       ELSE /\ UNCHANGED inFlight
            /\ IF NeedsInsert(peer.rowsToInsert)
               THEN peer' = [peer EXCEPT !.pc = "b_insert",
                                         !.calls = Issued(peer.calls, "store", -1)]
               ELSE peer' = PeerRespond(peer, 200,
                                        SummaryBody(peer.addresses, peer.results, 0))
    /\ UNCHANGED << firstVars, geo_registry >>

\* Line 122: the timer fires; the fetch is issued.
PeerWake(late) ==
    /\ peer.pc = "b_sleep"
    /\ LET waited == IF peer.elapsed = -1 THEN -1
                     ELSE peer.elapsed + NOMINATIM_DELAY_MS + late IN
       peer' = PeerStartFetch([peer EXCEPT !.elapsed = waited])
    /\ inFlight' = inFlight + 1
    /\ UNCHANGED << firstVars, geo_registry >>

\* Lines 128-171: the provider call ends and its answer is handled.
PeerFetchReturns(outcome) ==
    /\ peer.pc = "b_fetch"
    /\ LET address == peer.addresses[peer.i + 1]
           items ==
             (CASE outcome.kind \in {"throw", "badjson"} -> CatchPush(peer.results, address)
                [] outcome.kind = "non2xx" ->
                     Push(peer.results, ErrorItem(address, "Geocoding service request failed"))
                [] outcome.kind = "ok" /\ Len(outcome.list) = 0 ->
                     Push(peer.results, NotFoundItem(address))
                [] OTHER -> Push(peer.results, SuccessItem(address, outcome.list[1])))
           rows ==
             (IF outcome.kind = "ok" /\ Len(outcome.list) > 0
              THEN Push(peer.rowsToInsert,
                        GeocodedRow(address, outcome.list[1], peer.source, peer.created_by))
              ELSE peer.rowsToInsert)
       IN  peer' = [peer EXCEPT !.results = items, !.rowsToInsert = rows,
                                !.i = peer.i + 1, !.pc = "b_loop", !.elapsed = 0,
                                !.calls[Len(peer.calls)].outcome = OutcomeKind(outcome)]
    /\ inFlight' = inFlight - 1
    /\ UNCHANGED << firstVars, geo_registry >>

\* Lines 182-208: the bulk insert answers.
PeerInsertReturns(ok) ==
    /\ peer.pc = "b_insert"
    /\ geo_registry' = BulkInsert(geo_registry, peer.rowsToInsert, ok)
    /\ LET p == [peer EXCEPT !.calls[Len(peer.calls)].outcome = IF ok THEN "ok" ELSE "error"] IN
       peer' =
         (IF ok
          THEN PeerRespond(p, 200, SummaryBody(p.addresses, p.results, Len(p.rowsToInsert)))
          ELSE PeerRespond(p, 500, InsertFailureBody(p.results)))
    /\ UNCHANGED << firstVars, inFlight >>

\* The caller aborts the request being served (req.signal); nothing in the
\* handler listens.
Cancel ==
    /\ request.fn = "batch-geocode"
    /\ pc \notin {"idle", "done"}
    /\ ~cancelled
    /\ cancelled' = TRUE
    /\ UNCHANGED << pc, request, i, results, rowsToInsert, created_by, response,
                    geo_registry, calls, inFlight, elapsed, callGap, answer, geofences,
                    peer >>

(***************************************************************************)
(* geocode/index.ts, lines 1-143: forward geocoding of one address.        *)
(***************************************************************************)
GeocodeAddresses ==
    { JUndefined, JStr(<< >>), JStr(<< " " >>), JNum(<< "4", "2" >>), JStr(<< "U", "B" >>) }

\* Lines 70-79
GeocodeStandardized(cand) ==
    [house_number |-> Coalesce(cand.address["house_number"], JNull),
     road         |-> Coalesce(cand.address["road"], JNull),
     city         |-> Coalesce(cand.address["city"], JNull),
     state        |-> Coalesce(cand.address["state"], JNull),
     postcode     |-> Coalesce(cand.address["postcode"], JNull),
     country      |-> Coalesce(cand.address["country"], JNull),
     country_code |-> Coalesce(cand.address["country_code"], JNull),
     formatted    |-> cand.display_name]

\* Mutant: country_code is taken for one of the scored fields.
GeocodeConfidenceSeven(cand) ==
    LET fields == << cand.address["house_number"], cand.address["road"],
                     cand.address["city"], cand.address["state"],
                     cand.address["postcode"], cand.address["country"],
                     cand.address["country_code"] >>
        filled == Cardinality({ k \in 1..Len(fields) : Truthy(fields[k]) })
    IN  ToFixed2(filled, Len(fields))

\* Lines 82-91
GeocodeConfidence(cand) ==
    LET fields == << cand.address["house_number"], cand.address["road"],
                     cand.address["city"], cand.address["state"],
                     cand.address["postcode"], cand.address["country"] >>
        filled == Cardinality({ k \in 1..Len(fields) : Truthy(fields[k]) })
    IN  ToFixed2(filled, Len(fields))

\* Lines 115-122
GeocodeRow(address, cand, source, user) ==
    [raw_address          |-> address,
     standardized_address |-> GeocodeStandardized(cand),
     coordinates          |-> [lon |-> cand.lon, lat |-> cand.lat],
     source               |-> Coalesce(source, JStr(<< "nominatim" >>)),
     confidence_score     |-> GeocodeConfidence(cand),
     created_by           |-> user]

\* Lines 31-47: the check of the address, then the provider call is issued.
GeocodeRequest(address, source, authHeader) ==
    /\ pc = "idle"
    /\ request' = [fn |-> "geocode", address |-> address, source |-> source,
                   authHeader |-> authHeader]
    /\ IF ~Truthy(address) \/ ~IsString(address)
       THEN /\ Respond(400, [error |-> "A valid 'address' string is required"])
            /\ UNCHANGED calls
       ELSE /\ pc' = "g_fetch"
            /\ Call("provider", 0)
            /\ UNCHANGED response
    /\ UNCHANGED << created_by, geo_registry, answer, geofences >>
    /\ UNCHANGED batchVars

\* Lines 45-113: the provider call ends.  An exception (the fetch rejects,
\* the body cannot be read) goes to the catch of lines 137-142.
GeocodeFetchReturns(outcome) ==
    /\ pc = "g_fetch"
    /\ CASE outcome.kind \in {"throw", "badjson"} ->
              /\ Respond(500, [error |-> "exception"])
              /\ Settle(OutcomeKind(outcome))
              /\ UNCHANGED answer
         [] outcome.kind = "non2xx" ->
              /\ Respond(502, [error |-> "Geocoding service request failed"])
              /\ Settle(OutcomeKind(outcome))
              /\ UNCHANGED answer
         [] outcome.kind = "ok" /\ Len(outcome.list) = 0 ->
              /\ Respond(404, [error |-> "No results found for the given address"])
              /\ Settle(OutcomeKind(outcome))
              /\ UNCHANGED answer
         [] OTHER ->
              /\ answer' = outcome.list[1]
              /\ pc' = (IF request.authHeader THEN "g_auth" ELSE "g_insert")
              /\ calls' = Issued(Settled(OutcomeKind(outcome)),
                                 IF request.authHeader THEN "identity" ELSE "store", 0)
              /\ UNCHANGED response
    /\ UNCHANGED << request, created_by, geo_registry, geofences >>
    /\ UNCHANGED batchVars

\* Lines 109-124: getUser answers; the insert is issued.
GeocodeGetUser(outcome) ==
    /\ pc = "g_auth"
    /\ IF outcome = "throw"
       THEN /\ Respond(500, [error |-> "exception"])
            /\ Settle(outcome)
            /\ UNCHANGED created_by
       ELSE /\ created_by' = UserOf(outcome)
            /\ pc' = "g_insert"
            /\ calls' = Issued(Settled(outcome), "store", 0)
            /\ UNCHANGED response
    /\ UNCHANGED << request, geo_registry, answer, geofences >>
    /\ UNCHANGED batchVars

\* Lines 113-136: the insert answers.
GeocodeInsertReturns(ok) ==
    /\ pc = "g_insert"
    /\ LET row == GeocodeRow(request.address, answer, request.source, created_by) IN
       IF ok
       THEN /\ geo_registry' = InsertRows(geo_registry, << row >>)
            /\ Respond(201, [data |-> geo_registry'[Len(geo_registry')]])
       ELSE /\ Respond(500, [error |-> "insert failed"])
            /\ UNCHANGED geo_registry
    /\ Settle(IF ok THEN "ok" ELSE "error")
    /\ UNCHANGED << request, created_by, answer, geofences >>
    /\ UNCHANGED batchVars

(***************************************************************************)
(* reverse-geocode/index.ts: reverse geocoding of one point.               *)
(***************************************************************************)
LatValues ==
    { Num(Degrees(-90) - 1), Num(Degrees(-90)), Num(CenterLat), Num(Degrees(90)),
      Num(Degrees(90) + 1), JStr(<< "4", "8" >>) }

LonValues ==
    { Num(Degrees(-180) - 1), Num(Degrees(-180)), Num(Meridian), Num(Degrees(180)),
      Num(Degrees(180) + 1), JUndefined }

\* Lines 33 and 40: the reason the coordinates are refused for, or "ok".
CoordinateCheck(lat, lon) ==
    IF ~IsNumber(lat) \/ ~IsNumber(lon) THEN "'lat' and 'lon' must be numbers"
    ELSE IF \/ lat.val < Degrees(-90) \/ lat.val > Degrees(90)
            \/ lon.val < Degrees(-180) \/ lon.val > Degrees(180)
    THEN "Coordinates out of range (lat: -90..90, lon: -180..180)"
    ELSE "ok"

\* Lines 72-81
ReverseStandardized(result) ==
    [house_number |-> Coalesce(result.address["house_number"], JNull),
     road         |-> Coalesce(result.address["road"], JNull),
     city         |-> Coalesce(result.address["city"], JNull),
     state        |-> Coalesce(result.address["state"], JNull),
     postcode     |-> Coalesce(result.address["postcode"], JNull),
     country      |-> Coalesce(result.address["country"], JNull),
     country_code |-> Coalesce(result.address["country_code"], JNull),
     formatted    |-> result.display_name]

\* Lines 84-93
ReverseConfidence(result) ==
    LET fields == << result.address["house_number"], result.address["road"],
                     result.address["city"], result.address["state"],
                     result.address["postcode"], result.address["country"] >>
        filled == Cardinality({ k \in 1..Len(fields) : Truthy(fields[k]) })
    IN  ToFixed2(filled, Len(fields))

\* Lines 117-124
ReverseRow(result, lat, lon, source, user) ==
    [raw_address          |-> result.display_name,
     standardized_address |-> ReverseStandardized(result),
     coordinates          |-> [lon |-> lon.val, lat |-> lat.val],
     source               |-> Coalesce(source, JStr(<< "nominatim_reverse" >>)),
     confidence_score     |-> ReverseConfidence(result),
     created_by           |-> user]

\* Lines 31-53: the checks of the coordinates, then the provider call is
\* issued.
ReverseRequest(lat, lon, source, authHeader) ==
    /\ pc = "idle"
    /\ request' = [fn |-> "reverse-geocode", lat |-> lat, lon |-> lon,
                   source |-> source, authHeader |-> authHeader]
    /\ IF CoordinateCheck(lat, lon) # "ok"
       THEN /\ Respond(400, [error |-> CoordinateCheck(lat, lon)])
            /\ UNCHANGED calls
       ELSE /\ pc' = "r_fetch"
            /\ Call("provider", 0)
            /\ UNCHANGED response
    /\ UNCHANGED << created_by, geo_registry, answer, geofences >>
    /\ UNCHANGED batchVars

\* Lines 51-115: the provider call ends; an answer with "error" set is the
\* provider's "nothing found" (the empty list of the outcome).
ReverseFetchReturns(outcome) ==
    /\ pc = "r_fetch"
    /\ CASE outcome.kind \in {"throw", "badjson"} ->
              /\ Respond(500, [error |-> "exception"])
              /\ Settle(OutcomeKind(outcome))
              /\ UNCHANGED answer
         [] outcome.kind = "non2xx" ->
              /\ Respond(502, [error |-> "Reverse geocoding service request failed"])
              /\ Settle(OutcomeKind(outcome))
              /\ UNCHANGED answer
         [] outcome.kind = "ok" /\ Len(outcome.list) = 0 ->
              /\ Respond(404, [error |-> "No results found for the given coordinates"])
              /\ Settle(OutcomeKind(outcome))
              /\ UNCHANGED answer
         [] OTHER ->
              /\ answer' = outcome.list[1]
              /\ pc' = (IF request.authHeader THEN "r_auth" ELSE "r_insert")
              /\ calls' = Issued(Settled(OutcomeKind(outcome)),
                                 IF request.authHeader THEN "identity" ELSE "store", 0)
              /\ UNCHANGED response
    /\ UNCHANGED << request, created_by, geo_registry, geofences >>
    /\ UNCHANGED batchVars

\* Lines 111-126: getUser answers; the insert is issued.
ReverseGetUser(outcome) ==
    /\ pc = "r_auth"
    /\ IF outcome = "throw"
       THEN /\ Respond(500, [error |-> "exception"])
            /\ Settle(outcome)
            /\ UNCHANGED created_by
       ELSE /\ created_by' = UserOf(outcome)
            /\ pc' = "r_insert"
            /\ calls' = Issued(Settled(outcome), "store", 0)
            /\ UNCHANGED response
    /\ UNCHANGED << request, geo_registry, answer, geofences >>
    /\ UNCHANGED batchVars

\* Lines 115-138: the insert answers.
ReverseInsertReturns(ok) ==
    /\ pc = "r_insert"
    /\ LET row == ReverseRow(answer, request.lat, request.lon, request.source, created_by) IN
       IF ok
       THEN /\ geo_registry' = InsertRows(geo_registry, << row >>)
            /\ Respond(201, [data |-> geo_registry'[Len(geo_registry')]])
       ELSE /\ Respond(500, [error |-> "insert failed"])
            /\ UNCHANGED geo_registry
    /\ Settle(IF ok THEN "ok" ELSE "error")
    /\ UNCHANGED << request, created_by, answer, geofences >>
    /\ UNCHANGED batchVars

(***************************************************************************)
(* PostGIS, as far as the SQL functions use it.                            *)
(***************************************************************************)
Abs(n) == IF n < 0 THEN -n ELSE n

Min(a, b) == IF a < b THEN a ELSE b

\* A place more than a degree away is farther than any radius the
\* functions accept; nothing more is needed of its distance.
FarMm == Degrees(1) * MmPerUnit + 1

\* st_distance(a, b) of two geography points, in mm.
st_distance(a, b) ==
    IF a.lon # b.lon \/ Abs(a.lat - b.lat) > Degrees(1) THEN FarMm
    ELSE Abs(a.lat - b.lat) * MmPerUnit

\* st_dwithin(a, b, r): the distance is at most r (r in mm).
st_dwithin(a, b, r) == st_distance(a, b) <= r

\* st_point(lon, lat)
st_point(lon, lat) == [lon |-> lon, lat |-> lat]

\* st_asgeojson(point)::text, as JSON.parse reads it back.
st_asgeojson(pt) == [type |-> "Point", coordinates |-> << pt.lon, pt.lat >>]

(***************************************************************************)
(* 20260214000003_spatial_clustering_rpc.sql, lines 78-110: nearby_search. *)
(***************************************************************************)
\* The select list of lines 97-105 for one row of the table.
NearbyRow(g, lat, lon) ==
    [id                   |-> g.id,
     raw_address          |-> g.raw_address,
     standardized_address |-> g.standardized_address,
     coordinates          |-> st_asgeojson(g.coordinates),
     source               |-> g.source,
     confidence_score     |-> g.confidence_score,
     created_at           |-> g.created_at,
     distance_m           |-> st_distance(g.coordinates, st_point(lon, lat))]

\* from geo_registry g where st_dwithin(...): the rows in table order.
NearbyHits(table, lat, lon, radius_m) ==
    LET within == SelectSeq(table,
                    LAMBDA g : st_dwithin(g.coordinates, st_point(lon, lat), radius_m))
    IN  [k \in 1..Len(within) |-> NearbyRow(within[k], lat, lon)]

\* Mutant: order by distance_m desc.
OrderedByDistanceDesc(rows) ==
    { [k \in 1..Len(rows) |-> rows[p[k]]] :
        p \in { q \in [1..Len(rows) -> 1..Len(rows)] :
                  /\ \A a, b \in 1..Len(rows) : a # b => q[a] # q[b]
                  /\ \A a \in 1..Len(rows) - 1 :
                        rows[q[a]].distance_m >= rows[q[a + 1]].distance_m } }

\* order by distance_m asc: every arrangement of the rows in which the
\* distances do not decrease.  SQL leaves the order of rows with equal sort
\* keys open, so each such arrangement is a possible result.
OrderedByDistance(rows) ==
    { [k \in 1..Len(rows) |-> rows[p[k]]] :
        p \in { q \in [1..Len(rows) -> 1..Len(rows)] :
                  /\ \A a, b \in 1..Len(rows) : a # b => q[a] # q[b]
                  /\ \A a \in 1..Len(rows) - 1 :
                        rows[q[a]].distance_m <= rows[q[a + 1]].distance_m } }

\* limit max_results
Limit(rows, n) == SubSeq(rows, 1, Min(Len(rows), n))

\* The results the function can return; a negative limit is an error of the
\* statement ("LIMIT must not be negative"), and so are failures of the
\* database.
nearby_search(table, lat, lon, radius_m, max_results) ==
    { [error |-> TRUE, data |-> << >>] }
    \cup (IF max_results < 0 THEN {}
          ELSE { [error |-> FALSE, data |-> Limit(o, max_results)] :
                   o \in OrderedByDistance(NearbyHits(table, lat, lon, radius_m)) })

(***************************************************************************)
(* nearby-search/index.ts: radius search.                                  *)
(***************************************************************************)
NearbyLats == { Num(CenterLat), Num(Degrees(90)), Num(Degrees(90) + 1), JUndefined }
NearbyLons == { Num(Meridian), Num(Degrees(-180) - 1) }
NearbyRadii ==
    { JUndefined, Num(0), Num(Meters(2783)), Num(Meters(50000)), Num(Meters(50000) + 1) }
NearbyMaxResults == { JUndefined, Num(-1), Num(0), Num(1), Num(2), Num(101) }

\* A destructuring default: radius_m = 1000, max_results = 50, ...
Default(v, dflt) == IF v.type = "undefined" THEN dflt ELSE v

\* Lines 24-43: the reason the request is refused for, or "ok".
NearbyCheck(lat, lon, radius_m) ==
    IF ~IsNumber(lat) \/ ~IsNumber(lon) THEN "'lat' and 'lon' must be numbers"
    ELSE IF \/ lat.val < Degrees(-90) \/ lat.val > Degrees(90)
            \/ lon.val < Degrees(-180) \/ lon.val > Degrees(180)
    THEN "Coordinates out of range (lat: -90..90, lon: -180..180)"
    ELSE IF radius_m.val <= 0 \/ radius_m.val > Meters(50000)
    THEN "'radius_m' must be between 1 and 50000 meters"
    ELSE "ok"

\* Math.round(d * 100) / 100 of a length in metres, here in mm.
RoundToHundredths(mm) == ((mm + 5) \div 10) * 10

\* Lines 67-73: the rows as they are returned.
NearbyResults(data) ==
    [k \in 1..Len(data) |->
        [data[k] EXCEPT !.distance_m = RoundToHundredths(data[k].distance_m)]]

\* Lines 17-57: the defaults, the checks, then the rpc is issued.
NearbyRequest(lat, lon, radius_m, max_results) ==
    /\ pc = "idle"
    /\ request' = [fn |-> "nearby-search", lat |-> lat, lon |-> lon,
                   radius_m |-> Default(radius_m, Num(Meters(1000))),
                   max_results |-> Default(max_results, Num(50))]
    /\ IF NearbyCheck(lat, lon, request'.radius_m) # "ok"
       THEN /\ Respond(400, [error |-> NearbyCheck(lat, lon, request'.radius_m)])
            /\ UNCHANGED calls
       ELSE /\ pc' = "n_rpc"
            /\ Call("store", 0)
            /\ UNCHANGED response
    /\ UNCHANGED << created_by, geo_registry, answer, geofences >>
    /\ UNCHANGED batchVars

\* max_results: Math.min(max_results, 100)
NearbyLimit(max_results) == Min(max_results, 100)

\* What the rpc of lines 52-57 can answer in the current state.
NearbyAnswers ==
    nearby_search(geo_registry, request.lat.val, request.lon.val, request.radius_m.val,
                  NearbyLimit(request.max_results.val))

\* Lines 52-78: the rpc answers.
NearbyRpcReturns(res) ==
    /\ pc = "n_rpc"
    /\ IF res.error
       THEN Respond(500, [error |-> "rpc failed"])
       ELSE Respond(200, [count |-> Len(NearbyResults(res.data)),
                          results |-> NearbyResults(res.data)])
    /\ Settle(IF res.error THEN "error" ELSE "ok")
    /\ UNCHANGED << request, created_by, geo_registry, answer, geofences >>
    /\ UNCHANGED batchVars

(***************************************************************************)
(* 20260214000003_spatial_clustering_rpc.sql, lines 1-44: spatial_clusters.*)
(***************************************************************************)
\* Two points are within eps = cluster_distance_m / 111320.0 degrees of
\* each other (cluster_distance_m in mm).
WithinEps(a, b, cluster_distance_m) ==
    /\ a.lon = b.lon
    /\ Abs(a.lat - b.lat) <= Degrees(1)
    /\ Abs(a.lat - b.lat) * MmPerUnit <= cluster_distance_m

\* The points of pts (by index) within eps of point k, k itself included.
EpsNeighbours(pts, k, d) ==
    { j \in 1..Len(pts) : WithinEps(pts[k].coordinates, pts[j].coordinates, d) }

\* The core points: those with at least minpoints points within eps.
CorePoints(pts, d, min_points) ==
    { k \in 1..Len(pts) : Cardinality(EpsNeighbours(pts, k, d)) >= min_points }

RECURSIVE Grow(_, _, _, _)
\* The core points reachable from S through core points within eps.
Grow(pts, core, d, S) ==
    LET T == S \cup { j \in core : \E k \in S : j \in EpsNeighbours(pts, k, d) } IN
    IF T = S THEN S ELSE Grow(pts, core, d, T)

\* Mutant: the points without a cid are kept as a group of their own (the
\* filter "cid is not null" is missing).
st_clusterdbscanKeepingNull(pts, d, min_points) ==
    LET core   == CorePoints(pts, d, min_points)
        groups == { Grow(pts, core, d, {k}) : k \in core }
        border == { k \in 1..Len(pts) \ core : EpsNeighbours(pts, k, d) \cap core # {} }
        noise  == (1..Len(pts) \ core) \ border
        joins  == { f \in [border -> groups] :
                      \A k \in border : EpsNeighbours(pts, k, d) \cap f[k] # {} }
    IN  { { g \cup { k \in border : f[k] = g } : g \in groups }
            \cup (IF noise = {} THEN {} ELSE {noise}) : f \in joins }

\* Every clustering st_clusterdbscan can give: the core points fall into
\* their connected groups; a point that is no core point but within eps of
\* core points joins the group of any one of them; the others get no cid.
\* A clustering is the set of its groups, each a set of indices into pts.
st_clusterdbscan(pts, d, min_points) ==
    LET core   == CorePoints(pts, d, min_points)
        groups == { Grow(pts, core, d, {k}) : k \in core }
        border == { k \in 1..Len(pts) \ core : EpsNeighbours(pts, k, d) \cap core # {} }
        joins  == { f \in [border -> groups] :
                      \A k \in border : EpsNeighbours(pts, k, d) \cap f[k] # {} }
    IN  { { g \cup { k \in border : f[k] = g } : g \in groups } : f \in joins }

RECURSIVE SumOver(_, _)
\* sum(f[k]) over the k in S
SumOver(S, f) ==
    IF S = {} THEN 0
    ELSE LET x == CHOOSE y \in S : TRUE IN f[x] + SumOver(S \ {x}, f)

\* The least index of a group.
First(g) == CHOOSE k \in g : \A j \in g : k <= j

\* st_centroid(st_collect(...)): the mean of the coordinates, each kept as
\* the pair << sum, count >>.
st_centroid(pts, g) ==
    [lon |-> << SumOver(g, [k \in g |-> pts[k].coordinates.lon]), Cardinality(g) >>,
     lat |-> << SumOver(g, [k \in g |-> pts[k].coordinates.lat]), Cardinality(g) >>]

\* round(avg(confidence_score)::numeric, 2), in hundredths.
RoundedAverage(pts, g) ==
    (2 * SumOver(g, [k \in g |-> pts[k].confidence_score]) + Cardinality(g))
        \div (2 * Cardinality(g))

\* The rows of lines 32-42 for one clustering, addresses in table order.
\* The ids number the groups from 0.
ClusterRows(pts, clustering) ==
    { [cluster_id     |-> Cardinality({ h \in clustering : First(h) < First(g) }),
       cluster_center |-> st_asgeojson(st_centroid(pts, g)),
       point_count    |-> Cardinality(g),
       addresses      |-> LET members == SelectSeq([k \in 1..Len(pts) |-> k],
                                                   LAMBDA k : k \in g)
                          IN  [k \in 1..Len(members) |-> pts[members[k]].raw_address],
       avg_confidence |-> RoundedAverage(pts, g)] : g \in clustering }

\* order by point_count desc: every arrangement of the rows in which the
\* counts do not increase.
OrderedByCount(rows) ==
    { s \in [1..Cardinality(rows) -> rows] :
        /\ \A a, b \in 1..Cardinality(rows) : a # b => s[a] # s[b]
        /\ \A a \in 1..Cardinality(rows) - 1 : s[a].point_count >= s[a + 1].point_count }

\* The results the function can return; a failure of the database is an
\* error.
spatial_clusters(table, lat, lon, radius_m, cluster_distance_m, min_points) ==
    LET pts == SelectSeq(table,
                 LAMBDA g : st_dwithin(g.coordinates, st_point(lon, lat), radius_m)) IN
    { [error |-> TRUE, data |-> << >>] }
    \cup { [error |-> FALSE, data |-> d] :
             d \in UNION { OrderedByCount(ClusterRows(pts, c)) :
                             c \in st_clusterdbscan(pts, cluster_distance_m, min_points) } }

(***************************************************************************)
(* The spatial-cluster function (geocode/index.ts, lines 145-244).         *)
(***************************************************************************)
ClusterLats == { Num(CenterLat), Num(Degrees(-90) - 1), JNull }
ClusterLons == { Num(Meridian), Num(Degrees(180) + 1) }
ClusterRadii ==
    { JUndefined, Num(0), Num(Meters(2783)), Num(Meters(100000)), Num(Meters(100000) + 1) }
ClusterDistances ==
    { JUndefined, Num(0), Num(Meters(2783)), Num(Meters(2783) + 1), Num(Meters(5000) + 1) }
MinPoints == { JUndefined, Num(2), Num(3), Num(4) }

\* Lines 170-196: the reason the request is refused for, or "ok".
ClusterCheck(lat, lon, radius_m, cluster_distance_m) ==
    IF ~IsNumber(lat) \/ ~IsNumber(lon) THEN "'lat' and 'lon' must be numbers"
    ELSE IF \/ lat.val < Degrees(-90) \/ lat.val > Degrees(90)
            \/ lon.val < Degrees(-180) \/ lon.val > Degrees(180)
    THEN "Coordinates out of range (lat: -90..90, lon: -180..180)"
    ELSE IF radius_m.val <= 0 \/ radius_m.val > Meters(100000)
    THEN "'radius_m' must be between 1 and 100000 meters"
    ELSE IF cluster_distance_m.val <= 0 \/ cluster_distance_m.val > radius_m.val
    THEN "'cluster_distance_m' must be between 1 and radius_m"
    ELSE "ok"

\* Lines 161-211: the defaults, the checks, then the rpc is issued.
ClusterRequest(lat, lon, radius_m, cluster_distance_m, min_points) ==
    /\ pc = "idle"
    /\ request' = [fn |-> "spatial-cluster", lat |-> lat, lon |-> lon,
                   radius_m |-> Default(radius_m, Num(Meters(5000))),
                   cluster_distance_m |-> Default(cluster_distance_m, Num(Meters(500))),
                   min_points |-> Default(min_points, Num(1))]
    /\ LET verdict == ClusterCheck(lat, lon, request'.radius_m, request'.cluster_distance_m) IN
       IF verdict # "ok"
       THEN /\ Respond(400, [error |-> verdict])
            /\ UNCHANGED calls
       ELSE /\ pc' = "c_rpc"
            /\ Call("store", 0)
            /\ UNCHANGED response
    /\ UNCHANGED << created_by, geo_registry, answer, geofences >>
    /\ UNCHANGED batchVars

\* What the rpc of lines 205-211 can answer in the current state.
ClusterAnswers ==
    spatial_clusters(geo_registry, request.lat.val, request.lon.val, request.radius_m.val,
                     request.cluster_distance_m.val, request.min_points.val)

\* Lines 205-235: the rpc answers.
ClusterRpcReturns(res) ==
    /\ pc = "c_rpc"
    /\ IF res.error
       THEN Respond(500, [error |-> "rpc failed"])
       ELSE Respond(200, [count |-> Len(res.data), clusters |-> res.data])
    /\ Settle(IF res.error THEN "error" ELSE "ok")
    /\ UNCHANGED << request, created_by, geo_registry, answer, geofences >>
    /\ UNCHANGED batchVars

(***************************************************************************)
(* 20260214000004_geofences.sql: the geofences table and its functions.    *)
(* A polygon is its ring, a sequence of << lon, lat >> pairs.              *)
(***************************************************************************)
\* The point lies on the segment from a to b.
OnSegment(px, py, a, b) ==
    /\ (b[1] - a[1]) * (py - a[2]) = (b[2] - a[2]) * (px - a[1])
    /\ Min(a[1], b[1]) <= px /\ px <= (IF a[1] < b[1] THEN b[1] ELSE a[1])
    /\ Min(a[2], b[2]) <= py /\ py <= (IF a[2] < b[2] THEN b[2] ELSE a[2])

\* The ray from the point towards greater longitudes crosses the edge a-b.
RayCrosses(px, py, a, b) ==
    /\ (a[2] > py) # (b[2] > py)
    /\ LET t == (px - a[1]) * (b[2] - a[2]) - (py - a[2]) * (b[1] - a[1]) IN
       IF b[2] > a[2] THEN t < 0 ELSE t > 0

\* Mutant: the interior only (st_contains).
st_coversInterior(ring, pt) ==
    LET edges == 1..(Len(ring) - 1) IN
    /\ \A k \in edges : ~OnSegment(pt.lon, pt.lat, ring[k], ring[k + 1])
    /\ Cardinality({ k \in edges : RayCrosses(pt.lon, pt.lat, ring[k], ring[k + 1]) }) % 2 = 1

\* st_covers(polygon, point): the point is inside the ring or on it.  The
\* edges are taken as straight in longitude and latitude.
st_covers(ring, pt) ==
    LET edges == 1..(Len(ring) - 1) IN
    \/ \E k \in edges : OnSegment(pt.lon, pt.lat, ring[k], ring[k + 1])
    \/ Cardinality({ k \in edges : RayCrosses(pt.lon, pt.lat, ring[k], ring[k + 1]) }) % 2 = 1

\* Lines 48-55: geofence_check; a failure of the database is an error.
geofence_check(table, lat, lon) ==
    { [error |-> TRUE, data |-> << >>] }
    \cup { [error |-> FALSE,
            data |-> LET hit == SelectSeq(table,
                                  LAMBDA g : st_covers(g.boundary, st_point(lon, lat)))
                     IN  [k \in 1..Len(hit) |->
                            [id |-> hit[k].id, name |-> hit[k].name,
                             description |-> hit[k].description,
                             metadata |-> hit[k].metadata,
                             boundary |-> hit[k].boundary]]] }

\* The select list of lines 74-81 for one row of geo_registry.
EntryRow(r) ==
    [id                   |-> r.id,
     raw_address          |-> r.raw_address,
     standardized_address |-> r.standardized_address,
     coordinates          |-> st_asgeojson(r.coordinates),
     source               |-> r.source,
     confidence_score     |-> r.confidence_score,
     created_at           |-> r.created_at]

\* The rows of geo_registry the join of lines 82-84 yields, in table order.
EntryHits(fences, table, fence_id) ==
    LET inside == SelectSeq(table,
                    LAMBDA r : \E k \in 1..Len(fences) :
                                 /\ fences[k].id = fence_id
                                 /\ st_covers(fences[k].boundary, r.coordinates))
    IN  [k \in 1..Len(inside) |-> EntryRow(inside[k])]

\* Every arrangement of n of the rows: a limit without an order by returns
\* whichever rows the plan yields first.
AnyOrder(rows, n) ==
    { [k \in 1..n |-> rows[p[k]]] :
        p \in { q \in [1..n -> 1..Len(rows)] : \A a, b \in 1..n : a # b => q[a] # q[b] } }

\* Lines 59-86: geofence_entries.  A fence_id that is no uuid, a negative
\* limit and a failure of the database are errors.
geofence_entries(fences, table, fence_id, max_results) ==
    { [error |-> TRUE, data |-> << >>] }
    \cup (IF max_results < 0 \/ ~IsNumber(fence_id) THEN {}
          ELSE LET rows == EntryHits(fences, table, fence_id.val) IN
               { [error |-> FALSE, data |-> d] :
                   d \in AnyOrder(rows, Min(Len(rows), max_results)) })

(***************************************************************************)
(* The geofence function (src/unnamed/part_000).                           *)
(***************************************************************************)
\* buildPolygonWKT and the geography the table makes of it: the ring.
buildPolygonWKT(polygon) == polygon

SquareRing ==
    << << 106900, 47910 >>, << 106930, 47910 >>, << 106930, 47930 >>,
       << 106900, 47930 >>, << 106900, 47910 >> >>

\* The "polygon" of a create request: not an array, rings that are too
\* short or not closed, and closed rings of 4 and 5 vertices.
Polygons ==
    { [isArray |-> FALSE, ring |-> << >>],
      [isArray |-> TRUE,  ring |-> << >>],
      [isArray |-> TRUE,  ring |-> << SquareRing[1], SquareRing[2], SquareRing[1] >>],
      [isArray |-> TRUE,  ring |-> SubSeq(SquareRing, 1, 4)],
      [isArray |-> TRUE,  ring |-> << SquareRing[1], SquareRing[2], SquareRing[3], SquareRing[2] >>],
      [isArray |-> TRUE,  ring |-> << SquareRing[1], SquareRing[2], SquareRing[3], SquareRing[1] >>],
      [isArray |-> TRUE,  ring |-> SquareRing] }

FenceNames == { JUndefined, JStr(<< >>), JNum(<< "7" >>), JStr(<< "D" >>) }

\* Mutant: the closure check compares the longitudes only.
CreateCheckLonOnly(name, polygon) ==
    IF ~Truthy(name) \/ ~IsString(name) THEN "'name' is required"
    ELSE IF ~polygon.isArray \/ Len(polygon.ring) < 4
    THEN "'polygon' must have at least 4 coordinate pairs (closed ring)"
    ELSE IF polygon.ring[1][1] # polygon.ring[Len(polygon.ring)][1]
    THEN "Polygon must be closed (first and last coordinate must match)"
    ELSE "ok"

\* Lines 64-82: the reason the create request is refused for, or "ok".
CreateCheck(name, polygon) ==
    IF ~Truthy(name) \/ ~IsString(name) THEN "'name' is required"
    ELSE IF ~polygon.isArray \/ Len(polygon.ring) < 4
    THEN "'polygon' must have at least 4 coordinate pairs (closed ring)"
    ELSE LET first == polygon.ring[1]
             last  == polygon.ring[Len(polygon.ring)] IN
         IF first[1] # last[1] \/ first[2] # last[2]
         THEN "Polygon must be closed (first and last coordinate must match)"
         ELSE "ok"

\* {}
EmptyObject == [type |-> "object", chars |-> << >>]

\* The row of lines 95-101, with the defaults of the table.
GeofenceRow(name, description, polygon, metadata, user, n) ==
    [id          |-> n,
     name        |-> name,
     description |-> Coalesce(description, JNull),
     boundary    |-> buildPolygonWKT(polygon.ring),
     metadata    |-> Coalesce(metadata, EmptyObject),
     created_by  |-> user,
     created_at  |-> n]

\* Mutant: getUser is awaited ahead of the checks of lines 64-82.
CreateRequestUserFirst(name, polygon) ==
    /\ pc = "idle"
    /\ request' = [fn |-> "geofence", action |-> "create", name |-> name,
                   description |-> JUndefined, polygon |-> polygon,
                   metadata |-> JUndefined]
    /\ IF CreateCheck(name, polygon) # "ok"
       THEN /\ Respond(400, [error |-> CreateCheck(name, polygon)])
            /\ calls' = Append(calls, [svc |-> "identity", idx |-> 0, outcome |-> "user"])
       ELSE /\ pc' = "f_auth"
            /\ Call("identity", 0)
            /\ UNCHANGED response
    /\ UNCHANGED << created_by, geo_registry, answer, geofences >>
    /\ UNCHANGED batchVars

\* Lines 61-91: the checks of a create request, then getUser is issued.
CreateRequest(name, polygon) ==
    /\ pc = "idle"
    /\ request' = [fn |-> "geofence", action |-> "create", name |-> name,
                   description |-> JUndefined, polygon |-> polygon,
                   metadata |-> JUndefined]
    /\ IF CreateCheck(name, polygon) # "ok"
       THEN /\ Respond(400, [error |-> CreateCheck(name, polygon)])
            /\ UNCHANGED calls
       ELSE /\ pc' = "f_auth"
            /\ Call("identity", 0)
            /\ UNCHANGED response
    /\ UNCHANGED << created_by, geo_registry, answer, geofences >>
    /\ UNCHANGED batchVars

\* Lines 91-103: getUser answers; the insert is issued.
CreateGetUser(outcome) ==
    /\ pc = "f_auth"
    /\ IF outcome = "throw"
       THEN /\ Respond(500, [error |-> "exception"])
            /\ Settle(outcome)
            /\ UNCHANGED created_by
       ELSE /\ created_by' = UserOf(outcome)
            /\ pc' = "f_insert"
            /\ calls' = Issued(Settled(outcome), "store", 0)
            /\ UNCHANGED response
    /\ UNCHANGED << request, geo_registry, answer, geofences >>
    /\ UNCHANGED batchVars

\* Lines 93-106: the insert answers.
CreateInsertReturns(ok) ==
    /\ pc = "f_insert"
    /\ LET row == GeofenceRow(request.name, request.description, request.polygon,
                              request.metadata, created_by, Len(geofences) + 1) IN
       IF ok
       THEN /\ geofences' = Append(geofences, row)
            /\ Respond(201, [id |-> row.id, name |-> row.name,
                             description |-> row.description,
                             metadata |-> row.metadata,
                             created_at |-> row.created_at])
       ELSE /\ Respond(500, [error |-> "insert failed"])
            /\ UNCHANGED geofences
    /\ Settle(IF ok THEN "ok" ELSE "error")
    /\ UNCHANGED << request, created_by, geo_registry, answer >>
    /\ UNCHANGED batchVars

\* Lines 113-122: the reason the check request is refused for, or "ok".
PointCheck(lat, lon) ==
    IF ~IsNumber(lat) \/ ~IsNumber(lon) THEN "'lat' and 'lon' must be numbers"
    ELSE IF \/ lat.val < Degrees(-90) \/ lat.val > Degrees(90)
            \/ lon.val < Degrees(-180) \/ lon.val > Degrees(180)
    THEN "Coordinates out of range (lat: -90..90, lon: -180..180)"
    ELSE "ok"

CheckLats ==
    { Num(CenterLat), Num(CenterLat + 12), Num(CenterLat + 40), Num(Degrees(90) + 1),
      JUndefined }
CheckLons == { Num(Meridian), Num(106930), Num(Degrees(-180) - 1) }

\* Lines 110-124: the checks of a check request, then the rpc is issued.
CheckRequest(lat, lon) ==
    /\ pc = "idle"
    /\ request' = [fn |-> "geofence", action |-> "check", lat |-> lat, lon |-> lon]
    /\ IF PointCheck(lat, lon) # "ok"
       THEN /\ Respond(400, [error |-> PointCheck(lat, lon)])
            /\ UNCHANGED calls
       ELSE /\ pc' = "f_check"
            /\ Call("store", 0)
            /\ UNCHANGED response
    /\ UNCHANGED << created_by, geo_registry, answer, geofences >>
    /\ UNCHANGED batchVars

\* What the rpc of line 124 can answer in the current state.
CheckAnswers == geofence_check(geofences, request.lat.val, request.lon.val)

\* Lines 124-135: the rpc answers.
CheckRpcReturns(res) ==
    /\ pc = "f_check"
    /\ IF res.error
       THEN Respond(500, [error |-> "rpc failed"])
       ELSE Respond(200, [inside |-> Len(res.data) > 0, count |-> Len(res.data),
                          fences |-> res.data])
    /\ Settle(IF res.error THEN "error" ELSE "ok")
    /\ UNCHANGED << request, created_by, geo_registry, answer, geofences >>
    /\ UNCHANGED batchVars

\* max_results: Math.min(max_results, 500)
EntriesLimit(max_results) == Min(max_results, 500)

\* Lines 139-149: the check of an entries request, then the rpc is issued.
\* A fence_id is a number here (the id the table gave), or a string that
\* is no uuid.
EntriesRequest(fence_id, max_results) ==
    /\ pc = "idle"
    /\ request' = [fn |-> "geofence", action |-> "entries", fence_id |-> fence_id,
                   max_results |-> Default(max_results, Num(100))]
    /\ IF ~Truthy(fence_id)
       THEN /\ Respond(400, [error |-> "'fence_id' is required"])
            /\ UNCHANGED calls
       ELSE /\ pc' = "f_entries"
            /\ Call("store", 0)
            /\ UNCHANGED response
    /\ UNCHANGED << created_by, geo_registry, answer, geofences >>
    /\ UNCHANGED batchVars

FenceIds == { JUndefined, JStr(<< >>), JStr(<< "x" >>), Num(1), Num(2) }
EntriesMaxResults == { JUndefined, Num(-1), Num(0), Num(501) }

\* What the rpc of lines 146-149 can answer in the current state.
EntriesAnswers ==
    geofence_entries(geofences, geo_registry, request.fence_id,
                     EntriesLimit(request.max_results.val))

\* Lines 146-160: the rpc answers.
EntriesRpcReturns(res) ==
    /\ pc = "f_entries"
    /\ IF res.error
       THEN Respond(500, [error |-> "rpc failed"])
       ELSE Respond(200, [count |-> Len(res.data), entries |-> res.data])
    /\ Settle(IF res.error THEN "error" ELSE "ok")
    /\ UNCHANGED << request, created_by, geo_registry, answer, geofences >>
    /\ UNCHANGED batchVars

\* Lines 164-168: a list request; the select is issued.
ListRequest ==
    /\ pc = "idle"
    /\ request' = [fn |-> "geofence", action |-> "list"]
    /\ pc' = "f_list"
    /\ Call("store", 0)
    /\ UNCHANGED << response, created_by, geo_registry, answer, geofences >>
    /\ UNCHANGED batchVars

\* .order("created_at", { ascending: false }) of the columns selected.
ListRows(fences) ==
    [k \in 1..Len(fences) |->
        LET g == fences[Len(fences) + 1 - k] IN
        [id |-> g.id, name |-> g.name, description |-> g.description,
         metadata |-> g.metadata, created_at |-> g.created_at]]

\* Lines 165-171: the select answers.
ListReturns(ok) ==
    /\ pc = "f_list"
    /\ IF ok
       THEN Respond(200, [count |-> Len(geofences), geofences |-> ListRows(geofences)])
       ELSE Respond(500, [error |-> "select failed"])
    /\ Settle(IF ok THEN "ok" ELSE "error")
    /\ UNCHANGED << request, created_by, geo_registry, answer, geofences >>
    /\ UNCHANGED batchVars

\* Lines 174-178: any other action.
InvalidActionRequest ==
    /\ pc = "idle"
    /\ request' = [fn |-> "geofence", action |-> "other"]
    /\ Respond(400, [error |-> "Invalid action. Use: create, check, entries, or list"])
    /\ UNCHANGED << calls, created_by, geo_registry, answer, geofences >>
    /\ UNCHANGED batchVars

(***************************************************************************)
(* Specifications.                                                         *)
(***************************************************************************)
NextGeocode ==
    \/ pc = "idle" /\ \E a \in GeocodeAddresses, s \in Sources, h \in BOOLEAN :
                          GeocodeRequest(a, s, h)
    \/ pc = "g_fetch" /\ \E o \in SearchOutcomes : GeocodeFetchReturns(o)
    \/ pc = "g_auth" /\ \E o \in UserOutcomes : GeocodeGetUser(o)
    \/ pc = "g_insert" /\ \E ok \in BOOLEAN : GeocodeInsertReturns(ok)

NextReverse ==
    \/ pc = "idle" /\ \E lat \in LatValues, lon \in LonValues, s \in Sources, h \in BOOLEAN :
                          ReverseRequest(lat, lon, s, h)
    \/ pc = "r_fetch" /\ \E o \in SearchOutcomes : ReverseFetchReturns(o)
    \/ pc = "r_auth" /\ \E o \in UserOutcomes : ReverseGetUser(o)
    \/ pc = "r_insert" /\ \E ok \in BOOLEAN : ReverseInsertReturns(ok)

NextNearby ==
    \/ pc = "idle" /\ \E lat \in NearbyLats, lon \in NearbyLons, r \in NearbyRadii,
                          m \in NearbyMaxResults : NearbyRequest(lat, lon, r, m)
    \/ pc = "n_rpc" /\ \E res \in NearbyAnswers : NearbyRpcReturns(res)

NextBatch ==
    \/ pc = "idle" /\ \E a \in AddressLists, s \in Sources, h \in BOOLEAN : BatchRequest(a, s, h)
    \/ pc = "b_auth" /\ \E o \in UserOutcomes : BatchGetUser(o)
    \/ BatchIterate
    \/ pc = "b_sleep" /\ \E late \in 0..MaxJitter : BatchWake(late)
    \/ pc = "b_fetch" /\ \E o \in SearchOutcomes : BatchFetchReturns(o)
    \/ pc = "b_insert" /\ \E ok \in BOOLEAN : BatchInsertReturns(ok)

NextCluster ==
    \/ pc = "idle" /\ \E lat \in ClusterLats, lon \in ClusterLons, r \in ClusterRadii,
                          d \in ClusterDistances, m \in MinPoints :
                          ClusterRequest(lat, lon, r, d, m)
    \/ pc = "c_rpc" /\ \E res \in ClusterAnswers : ClusterRpcReturns(res)

NextGeofence ==
    \/ pc = "idle" /\ \E n \in FenceNames, p \in Polygons : CreateRequest(n, p)
    \/ pc = "f_auth" /\ \E o \in UserOutcomes : CreateGetUser(o)
    \/ pc = "f_insert" /\ \E ok \in BOOLEAN : CreateInsertReturns(ok)
    \/ pc = "idle" /\ \E lat \in CheckLats, lon \in CheckLons : CheckRequest(lat, lon)
    \/ pc = "f_check" /\ \E res \in CheckAnswers : CheckRpcReturns(res)
    \/ pc = "idle" /\ \E f \in FenceIds, m \in EntriesMaxResults : EntriesRequest(f, m)
    \/ pc = "f_entries" /\ \E res \in EntriesAnswers : EntriesRpcReturns(res)
    \/ ListRequest
    \/ pc = "f_list" /\ \E ok \in BOOLEAN : ListReturns(ok)
    \/ InvalidActionRequest

\* The edge functions serving one request.
Next == NextBatch \/ NextGeocode \/ NextReverse \/ NextNearby \/ NextCluster \/ NextGeofence

\* The places of the records of a registry to search: on the meridian, at
\* these offsets from the centre (25 units are 2783 m).
SearchOffsets == { -25, 0, 25, 26 }

SearchRegistries ==
    { InsertRows(<< >>,
                 [k \in 1..Len(offs) |->
                     GeocodedRow(JStr(<< "E" >>),
                                 Candidate(CenterLat + offs[k], Meridian, FullAddress),
                                 JUndefined, JNull)]) :
        offs \in UNION { [1..m -> SearchOffsets] : m \in 0..MaxRows } }

InitSearch ==
    /\ pc = "idle"
    /\ request = [fn |-> "none"]
    /\ i = 0
    /\ results = << >>
    /\ rowsToInsert = << >>
    /\ created_by = JNull
    /\ response = NoResponse
    /\ geo_registry \in SearchRegistries
    /\ calls = << >>
    /\ inFlight = 0
    /\ elapsed = -1
    /\ callGap = -1
    /\ answer = JNull
    /\ geofences = << >>
    /\ peer = PeerIdle
    /\ cancelled = FALSE

\* Deno.serve: the function takes its next request once it has answered.
Serve ==
    /\ pc = "done"
    /\ pc' = "idle"
    /\ request' = [fn |-> "none"]
    /\ response' = NoResponse
    /\ created_by' = JNull
    /\ calls' = << >>
    /\ UNCHANGED << geo_registry, answer, geofences >>
    /\ UNCHANGED batchVars

\* The geofence function serving one request after another, until the
\* table holds MaxFences fences.
NextFences ==
    \/ pc = "idle" /\ Len(geofences) < MaxFences
                   /\ \E n \in FenceNames, p \in Polygons : CreateRequest(n, p)
    \/ pc = "f_auth" /\ \E o \in UserOutcomes : CreateGetUser(o)
    \/ pc = "f_insert" /\ \E ok \in BOOLEAN : CreateInsertReturns(ok)
    \/ pc = "idle" /\ \E lat \in CheckLats, lon \in CheckLons : CheckRequest(lat, lon)
    \/ pc = "f_check" /\ \E res \in CheckAnswers : CheckRpcReturns(res)
    \/ pc = "idle" /\ \E f \in FenceIds, m \in EntriesMaxResults : EntriesRequest(f, m)
    \/ pc = "f_entries" /\ \E res \in EntriesAnswers : EntriesRpcReturns(res)
    \/ ListRequest
    \/ pc = "f_list" /\ \E ok \in BOOLEAN : ListReturns(ok)
    \/ InvalidActionRequest
    \/ Serve

SpecFences == Init /\ [][NextFences]_vars

\* The places of the records of the registries to cluster: on the
\* meridian, at these offsets from the centre, in the order they were
\* inserted.  25 units are 2783 m; 900 units are beyond 100 km.
ClusterShapes ==
    { << >>, << 0 >>, << 0, 25 >>, << 25, 0 >>, << 0, 26 >>,
      << 0, 25, 26 >>, << 26, 0, 25 >>, << 0, 60, 85 >>, << 0, 25, 900 >>,
      << 0, 25, 60, 85 >>, << 85, 0, 60, 25 >>, << 0, 1, 2, 60, 85 >>,
      << -25, -25, 0, 25, 50, 75, 75 >>, << 75, 50, 25, 0, -25, 75, -25 >> }

\* The raw address of the k-th record inserted.
Letter(k) == JStr(<< << "a", "b", "c", "d", "e", "f", "g" >>[k] >>)

ClusterRegistries ==
    { InsertRows(<< >>,
                 [k \in 1..Len(offs) |->
                     GeocodedRow(Letter(k),
                                 Candidate(CenterLat + offs[k], Meridian,
                                           IF k % 2 = 1 THEN FullAddress ELSE PartialAddress),
                                 JUndefined, JNull)]) :
        offs \in ClusterShapes }

InitCluster ==
    /\ pc = "idle"
    /\ request = [fn |-> "none"]
    /\ i = 0
    /\ results = << >>
    /\ rowsToInsert = << >>
    /\ created_by = JNull
    /\ response = NoResponse
    /\ geo_registry \in ClusterRegistries
    /\ calls = << >>
    /\ inFlight = 0
    /\ elapsed = -1
    /\ callGap = -1
    /\ answer = JNull
    /\ geofences = << >>
    /\ peer = PeerIdle
    /\ cancelled = FALSE

\* Clustering over registries of a few shapes.
SpecCluster == InitCluster /\ [][NextCluster]_vars

\* The "addresses" of two requests served at the same time.
ConcurrentLists ==
    { [isArray |-> TRUE, items |-> l] :
        l \in { << JStr(<< "U", "B" >>) >>,
                << JStr(<< >>), JStr(<< "U", "B" >>) >> } }
    \cup { [isArray |-> TRUE, items |-> << >>] }

\* Two batch-geocode requests served at the same time.
NextConcurrent ==
    \/ pc = "idle" /\ \E a \in ConcurrentLists, h \in BOOLEAN : BatchRequest(a, JUndefined, h)
    \/ pc = "b_auth" /\ \E o \in UserOutcomes : BatchGetUser(o)
    \/ BatchIterate
    \/ pc = "b_sleep" /\ \E late \in 0..MaxJitter : BatchWake(late)
    \/ pc = "b_fetch" /\ \E o \in SearchOutcomes : BatchFetchReturns(o)
    \/ pc = "b_insert" /\ \E ok \in BOOLEAN : BatchInsertReturns(ok)
    \/ peer.pc = "idle" /\ \E a \in ConcurrentLists, h \in BOOLEAN : PeerRequest(a, JUndefined, h)
    \/ peer.pc = "b_auth" /\ \E o \in UserOutcomes : PeerGetUser(o)
    \/ PeerIterate
    \/ peer.pc = "b_sleep" /\ \E late \in 0..MaxJitter : PeerWake(late)
    \/ peer.pc = "b_fetch" /\ \E o \in SearchOutcomes : PeerFetchReturns(o)
    \/ peer.pc = "b_insert" /\ \E ok \in BOOLEAN : PeerInsertReturns(ok)

SpecConcurrent == Init /\ [][NextConcurrent]_vars

\* A batch-geocode request its caller may abort.
NextCancel == NextBatch \/ Cancel

SpecCancel == Init /\ [][NextCancel]_vars

\* The geocoding functions with their scheduling.  What the handler does by
\* itself happens: the loop goes on, a timer that was set fires, and the
\* identity provider and the record store answer.  Nothing makes the
\* geocoding provider answer a call.
NextGeocoding == NextBatch \/ NextGeocode \/ NextReverse

OwnSteps ==
    \/ BatchIterate
    \/ \E late \in 0..MaxJitter : BatchWake(late)
    \/ \E o \in UserOutcomes : BatchGetUser(o) \/ GeocodeGetUser(o) \/ ReverseGetUser(o)
    \/ \E ok \in BOOLEAN :
          BatchInsertReturns(ok) \/ GeocodeInsertReturns(ok) \/ ReverseInsertReturns(ok)

SpecLive == Init /\ [][NextGeocoding]_vars /\ WF_vars(OwnSteps)

\* Radius search over every small registry.
SpecSearch == InitSearch /\ [][NextNearby]_vars

\* Every way the provider can fill in the address of a candidate.
AllAddresses == [AddressFields -> {JUndefined, EmptyText, Text}]

AllFound ==
    { [kind |-> "ok", list |-> << Candidate(CenterLat, Meridian, a) >>] : a \in AllAddresses }

\* The three geocoding operations on one address or point each, the
\* provider answering with every combination of address components.
NextConfidence ==
    \/ pc = "idle" /\ \E h \in BOOLEAN :
           \/ GeocodeRequest(JStr(<< "U", "B" >>), JUndefined, h)
           \/ ReverseRequest(Num(CenterLat), Num(Meridian), JUndefined, h)
           \/ BatchRequest([isArray |-> TRUE, items |-> << JStr(<< "U", "B" >>) >>],
                            JUndefined, h)
    \/ pc = "g_fetch" /\ \E o \in AllFound : GeocodeFetchReturns(o)
    \/ pc = "g_auth" /\ \E o \in UserOutcomes : GeocodeGetUser(o)
    \/ pc = "g_insert" /\ \E ok \in BOOLEAN : GeocodeInsertReturns(ok)
    \/ pc = "r_fetch" /\ \E o \in AllFound : ReverseFetchReturns(o)
    \/ pc = "r_auth" /\ \E o \in UserOutcomes : ReverseGetUser(o)
    \/ pc = "r_insert" /\ \E ok \in BOOLEAN : ReverseInsertReturns(ok)
    \/ pc = "b_auth" /\ \E o \in UserOutcomes : BatchGetUser(o)
    \/ BatchIterate
    \/ pc = "b_fetch" /\ \E o \in AllFound : BatchFetchReturns(o)
    \/ pc = "b_insert" /\ \E ok \in BOOLEAN : BatchInsertReturns(ok)

SpecConfidence == Init /\ [][NextConfidence]_vars

Spec == Init /\ [][Next]_vars

(***************************************************************************)
(* Properties of batch-geocode.                                            *)
(***************************************************************************)
IsBatch == request.fn = "batch-geocode"

\* The request passed the batch-level checks (1..MAX_BATCH_SIZE addresses).
BatchAccepted ==
    IsBatch /\ Len(request.addresses) >= 1 /\ Len(request.addresses) <= MAX_BATCH_SIZE

Answered == pc = "done"

HasSummary == "summary" \in DOMAIN response.body

HasResults == "results" \in DOMAIN response.body

CallsTo(svc) == { k \in 1..Len(calls) : calls[k].svc = svc }

SuccessItems(items) == SelectSeq(items, LAMBDA r : r.status = "success")

\* The per-address loop has run to its end.
LoopCompleted == BatchAccepted /\ i = Len(request.addresses) /\ pc \in {"b_insert", "done"}

\* C1: every summary a batch request returns satisfies
\* succeeded + not_found + failed = total = number of input addresses, and
\* inserted <= succeeded.
Inv_C1_SummaryAccounting ==
    (IsBatch /\ Answered /\ HasSummary) =>
        LET s == response.body.summary IN
        /\ s.total = Len(request.addresses)
        /\ s.succeeded + s.not_found + s.failed = s.total
        /\ s.inserted <= s.succeeded

Witness_C1_MixedSummary ==
    /\ IsBatch /\ Answered /\ HasSummary
    /\ response.body.summary.succeeded >= 1
    /\ response.body.summary.not_found >= 1
    /\ response.body.summary.failed >= 1

\* The status the code records for an answer of the provider.
StatusFor(outcome) ==
    CASE outcome = "found" -> "success"
      [] outcome = "empty" -> "not_found"
      [] OTHER -> "error"

\* C2: every address yields exactly one result item, in input order, with
\* status success, not_found or error; an invalid address, a non-2xx answer
\* and an exception of the provider call are recorded as that item's error,
\* and the loop goes on to the end of the list: the response carries one
\* item per address.
Inv_C2_OneItemPerAddress ==
    IsBatch =>
        /\ Len(results) = i
        /\ \A k \in 1..Len(results) :
              /\ results[k].address = request.addresses[k]
              /\ results[k].status \in {"success", "not_found", "error"}
              /\ InvalidAddress(request.addresses[k]) =>
                    /\ results[k].status = "error"
                    /\ \A c \in CallsTo("provider") : calls[c].idx # k - 1
              /\ ~InvalidAddress(request.addresses[k]) =>
                    \E c \in CallsTo("provider") :
                        /\ calls[c].idx = k - 1
                        /\ results[k].status = StatusFor(calls[c].outcome)
        /\ (Answered /\ HasResults) =>
              /\ response.body.results = results
              /\ Len(results) = Len(request.addresses)
        /\ (Answered /\ BatchAccepted /\ \A c \in CallsTo("identity") : calls[c].outcome # "throw")
              => HasResults

Witness_C2_FailureThenSuccess ==
    /\ IsBatch /\ Answered /\ HasResults
    /\ Len(results) = 3
    /\ \E c \in CallsTo("provider") : calls[c].idx = 0 /\ calls[c].outcome = "throw"
    /\ results[1].status = "error"
    /\ InvalidAddress(request.addresses[2])
    /\ results[3].status = "success"

\* C3: the provider calls of one batch are serialized: at most one is in
\* flight, a call is issued only after every earlier one has been answered,
\* and at least NOMINATIM_DELAY_MS have passed since the previous call of
\* the batch ended, whatever lies between the two.
Inv_C3_SerializedWithDelay ==
    IsBatch =>
        /\ inFlight \in {0, 1}
        /\ (inFlight = 1) <=> (pc = "b_fetch")
        /\ \A a \in CallsTo("provider"), b \in CallsTo("provider") :
              a < b => calls[a].idx < calls[b].idx /\ calls[a].outcome # "pending"
        /\ (pc = "b_fetch" /\ Cardinality(CallsTo("provider")) >= 2)
              => callGap >= NOMINATIM_DELAY_MS

Witness_C3_DelayAcrossInvalid ==
    /\ IsBatch /\ pc = "b_fetch"
    /\ Cardinality(CallsTo("provider")) = 2
    /\ i = 2
    /\ InvalidAddress(request.addresses[2])
    /\ callGap >= NOMINATIM_DELAY_MS

\* A row of the table holds what was to be inserted.
SameRow(stored, row) == \A f \in DOMAIN row : stored[f] = row[f]

\* A row to insert is the record of a success item.
RowOfItem(row, item) ==
    /\ row.raw_address = item.address
    /\ row.standardized_address = item.data.standardized_address
    /\ row.confidence_score = item.data.confidence_score
    /\ row.coordinates = [lon |-> item.data.lon, lat |-> item.data.lat]

C4_State ==
    IsBatch =>
        /\ Cardinality(CallsTo("store")) <= 1
        /\ CallsTo("store") # {} => LoopCompleted /\ SuccessItems(results) # << >>
        /\ (LoopCompleted /\ SuccessItems(results) = << >>) => CallsTo("store") = {}
        /\ Len(rowsToInsert) = Len(SuccessItems(results))
        /\ \A k \in 1..Len(rowsToInsert) : RowOfItem(rowsToInsert[k], SuccessItems(results)[k])
        /\ (Answered /\ \E c \in CallsTo("store") : calls[c].outcome = "error") =>
              /\ response.status = 500
              /\ "error" \in DOMAIN response.body
              /\ HasResults
              /\ response.body.results = results
              /\ Len(results) = Len(request.addresses)

C4_Step ==
    IsBatch' =>
        \/ geo_registry' = geo_registry
        \/ /\ pc = "b_insert"
           /\ response'.status = 200
           /\ Len(geo_registry') = Len(geo_registry) + Len(rowsToInsert)
           /\ SubSeq(geo_registry', 1, Len(geo_registry)) = geo_registry
           /\ \A k \in 1..Len(rowsToInsert) :
                 SameRow(geo_registry'[Len(geo_registry) + k], rowsToInsert[k])

\* C4: the registry is not touched while the addresses are processed; after
\* the last address at most one bulk insert is issued, none when there is no
\* success item, and it holds exactly the rows of the success items in input
\* order; a failed insert stores nothing and is answered with the storage
\* error and the complete per-address results.
Thm_C4_SingleBulkInsert == []C4_State /\ [][C4_Step]_vars

Witness_C4_InsertFailed ==
    /\ IsBatch /\ Answered
    /\ \E c \in CallsTo("store") : calls[c].outcome = "error"
    /\ response.status = 500 /\ HasResults
    /\ Len(SuccessItems(response.body.results)) >= 2
    /\ \E k \in 1..Len(results) : results[k].status = "error"

\* C5 as claimed, on the path the claim names: a request that passed the
\* batch-level checks and ran its loop to the end is answered with a
\* summary.
C5_Original_AlwaysSummary ==
    (Answered /\ LoopCompleted) => HasSummary

\* C5, amended: a request whose loop ran to the end is answered with status
\* 200 and {summary, results} unless the bulk insert failed, in particular
\* when no address succeeded (no insert is issued then); when the bulk
\* insert failed the answer is status 500 with the error and the complete
\* results, and no summary.
Inv_C5_SummaryUnlessInsertFails ==
    (Answered /\ LoopCompleted) =>
        LET insertFailed == \E c \in CallsTo("store") : calls[c].outcome = "error" IN
        /\ HasResults /\ response.body.results = results
        /\ Len(results) = Len(request.addresses)
        /\ insertFailed => response.status = 500 /\ ~HasSummary
        /\ ~insertFailed => response.status = 200 /\ HasSummary
        /\ SuccessItems(results) = << >> =>
              /\ response.status = 200 /\ HasSummary
              /\ response.body.summary.succeeded = 0
              /\ response.body.summary.inserted = 0

Witness_C5_AllFailedSummary ==
    /\ Answered /\ LoopCompleted /\ HasSummary
    /\ response.body.summary.total >= 2
    /\ response.body.summary.failed = response.body.summary.total
    /\ \E c \in CallsTo("provider") : calls[c].outcome = "non2xx"

(***************************************************************************)
(* Properties of the single-record geocoding operations.                   *)
(***************************************************************************)
\* The value is a non-empty string.
NonEmpty(v) == v.type = "string" /\ v.chars # << >>

\* The number of non-empty fields among the six the score is about.
FilledCount(std) ==
    Cardinality({ f \in {"house_number", "road", "city", "state", "postcode", "country"} :
                    NonEmpty(std[f]) })

\* h hundredths is n/6 rounded to two decimals: no hundredth is nearer.
IsRoundedSixth(h, n) ==
    /\ h \in 0..100
    /\ 2 * (IF 6 * h >= 100 * n THEN 6 * h - 100 * n ELSE 100 * n - 6 * h) <= 6

\* C6: the confidence score stored with a record (and reported for a batch
\* item) is the number of non-empty fields among house_number, road, city,
\* state, postcode and country of its standardized address, divided by 6
\* and rounded to 2 decimals, whichever of the three operations stored it;
\* it lies in [0, 1] and does not depend on country_code.
Inv_C6_ConfidenceIsRoundedFraction ==
    /\ \A k \in 1..Len(geo_registry) :
          IsRoundedSixth(geo_registry[k].confidence_score,
                         FilledCount(geo_registry[k].standardized_address))
    /\ \A k \in 1..Len(rowsToInsert) :
          IsRoundedSixth(rowsToInsert[k].confidence_score,
                         FilledCount(rowsToInsert[k].standardized_address))
    /\ \A k \in 1..Len(results) :
          results[k].status = "success" =>
              IsRoundedSixth(results[k].data.confidence_score,
                             FilledCount(results[k].data.standardized_address))
    /\ (Answered /\ response.status = 201) =>
          IsRoundedSixth(response.body.data.confidence_score,
                         FilledCount(response.body.data.standardized_address))

Witness_C6_ReverseTwoOfSix ==
    /\ request.fn = "reverse-geocode" /\ Answered /\ response.status = 201
    /\ LET row == geo_registry[Len(geo_registry)] IN
       /\ row.confidence_score = 33
       /\ FilledCount(row.standardized_address) = 2
       /\ NonEmpty(row.standardized_address["country_code"])
       /\ row.standardized_address["road"] = EmptyText
       /\ row.standardized_address["city"] = JNull

\* C7 as claimed: forwardGeocode answers an empty address with InvalidInput
\* (400), a failed provider call, be it a non-2xx answer or a failure of the
\* network, with ProviderUnavailable (502), an empty candidate list with
\* NoResultsFound (404), and stores nothing in any of these cases.
C7_Claim_ForwardGeocodeErrors ==
    (request.fn = "geocode" /\ Answered) =>
        /\ request.address \in {JUndefined, JStr(<< >>)} =>
              response.status = 400 /\ calls = << >>
        /\ \A c \in CallsTo("provider") :
              /\ calls[c].outcome \in {"throw", "non2xx"} =>
                    response.status = 502 /\ CallsTo("store") = {}
              /\ calls[c].outcome = "empty" =>
                    response.status = 404 /\ CallsTo("store") = {}
        /\ response.status \in {400, 502, 404} => geo_registry \in InitialRegistries

(***************************************************************************)
(* Properties of the radius search.                                        *)
(***************************************************************************)
SearchAnswered == request.fn = "nearby-search" /\ Answered /\ response.status = 200

SearchCenter == st_point(request.lon.val, request.lat.val)

\* The distance of the stored record with this id from the centre.
DistanceOf(id) == st_distance(geo_registry[id].coordinates, SearchCenter)

\* The ids of the stored records within the radius.
InRadius == { k \in 1..Len(geo_registry) : DistanceOf(k) <= request.radius_m.val }

Returned == { response.body.results[k].id : k \in 1..Len(response.body.results) }

\* C9: a radius search that succeeds was given a radius in (0, 50000 m] and
\* returns stored records within the radius only, each once, in
\* non-decreasing order of distance, at most min(max, 100) of them and as
\* many as that allows; no record within the radius that is left out is
\* closer than a returned one.
Inv_C9_RadiusSearch ==
    SearchAnswered =>
        LET R == response.body.results IN
        /\ request.radius_m.val > 0 /\ request.radius_m.val <= Meters(50000)
        /\ response.body.count = Len(R)
        /\ Returned \subseteq InRadius
        /\ Cardinality(Returned) = Len(R)
        /\ \A k \in 1..Len(R) : R[k].distance_m = RoundToHundredths(DistanceOf(R[k].id))
        /\ \A k \in 1..Len(R) - 1 : DistanceOf(R[k].id) <= DistanceOf(R[k + 1].id)
        /\ Len(R) <= Min(request.max_results.val, 100)
        /\ Len(R) = Min(Cardinality(InRadius), Min(request.max_results.val, 100))
        /\ \A g \in InRadius \ Returned, k \in Returned : DistanceOf(g) >= DistanceOf(k)

\* Three records lie within the radius at three distances, and a search
\* for two of them returned the two nearest, the nearer first.
Witness_C9_NearestOfThree ==
    /\ SearchAnswered
    /\ Len(geo_registry) = 3
    /\ Cardinality(InRadius) = 3
    /\ Len(response.body.results) = 2
    /\ DistanceOf(response.body.results[1].id) < DistanceOf(response.body.results[2].id)
    /\ \E g \in InRadius \ Returned : DistanceOf(g) > DistanceOf(response.body.results[2].id)

\* C10 as claimed: of two returned records at the same distance the one
\* inserted earlier comes first, and where the limit cuts through records
\* at the same distance the earlier inserted ones are kept.
C10_Claim_TiesByInsertionOrder ==
    SearchAnswered =>
        LET R == response.body.results IN
        /\ \A a, b \in 1..Len(R) :
              (a < b /\ R[a].distance_m = R[b].distance_m) => R[a].created_at < R[b].created_at
        /\ \A g \in InRadius \ Returned, k \in Returned :
              DistanceOf(g) = DistanceOf(k) =>
                  geo_registry[k].created_at < geo_registry[g].created_at

(***************************************************************************)
(* Validation precedes every external call.                                *)
(***************************************************************************)
C8_BadCoordinates ==
    \/ ~IsNumber(request.lat) \/ ~IsNumber(request.lon)
    \/ request.lat.val < Degrees(-90) \/ request.lat.val > Degrees(90)
    \/ request.lon.val < Degrees(-180) \/ request.lon.val > Degrees(180)

\* The request has one of the validation errors the operations reject:
\* empty address, lat/lon out of range, radius or eps out of bounds, batch
\* size outside 1..50, empty geofence name, ring with fewer than 4 vertices
\* or not closed.
C8_ValidationError ==
    CASE request.fn = "geocode" ->
           ~IsString(request.address) \/ Len(request.address.chars) = 0
      [] request.fn = "reverse-geocode" -> C8_BadCoordinates
      [] request.fn = "nearby-search" ->
           \/ C8_BadCoordinates
           \/ request.radius_m.val <= 0 \/ request.radius_m.val > Meters(50000)
      [] request.fn = "spatial-cluster" ->
           \/ C8_BadCoordinates
           \/ request.radius_m.val <= 0 \/ request.radius_m.val > Meters(100000)
           \/ request.cluster_distance_m.val <= 0
           \/ request.cluster_distance_m.val > request.radius_m.val
      [] request.fn = "batch-geocode" ->
           Len(request.addresses) < 1 \/ Len(request.addresses) > 50
      [] request.fn = "geofence" /\ request.action = "create" ->
           \/ ~IsString(request.name) \/ Len(request.name.chars) = 0
           \/ ~request.polygon.isArray
           \/ Len(request.polygon.ring) < 4
           \/ request.polygon.ring[1] # request.polygon.ring[Len(request.polygon.ring)]
      [] request.fn = "geofence" /\ request.action = "check" -> C8_BadCoordinates
      [] OTHER -> FALSE

\* C8: in every operation, a request rejected for a validation error is
\* rejected before any call to the geocoding provider, the identity
\* provider or the record store is made: a 400 is answered with no call
\* issued, and no call is ever issued for a request with a validation error.
Inv_C8_RejectedBeforeAnyCall ==
    /\ response.status = 400 => calls = << >>
    /\ C8_ValidationError => calls = << >> /\ (Answered => response.status = 400)

\* A geofence create request with a name and a ring of 4 vertices that is
\* not closed was refused, and nothing was called.
Witness_C8_OpenRingRefused ==
    /\ Answered
    /\ request.fn = "geofence" /\ request.action = "create"
    /\ IsString(request.name) /\ Len(request.name.chars) > 0
    /\ request.polygon.isArray /\ Len(request.polygon.ring) >= 4
    /\ request.polygon.ring[1] # request.polygon.ring[Len(request.polygon.ring)]
    /\ response.status = 400
    /\ calls = << >>

(***************************************************************************)
(* Geofences.                                                              *)
(***************************************************************************)
IsFence(action) == request.fn = "geofence" /\ request.action = action

\* The fence_id of the entries request being served names a stored fence.
FenceExists ==
    /\ IsNumber(request.fence_id)
    /\ \E k \in 1..Len(geofences) : geofences[k].id = request.fence_id.val

\* C11 as claimed: an entries request whose fence_id references no stored
\* geofence fails with NotFound (404) and is never answered as a
\* successful, empty result (the record store answering its query).
C11_Claim_UnknownFenceNotFound ==
    (/\ Answered /\ IsFence("entries")
     /\ Truthy(request.fence_id) /\ ~FenceExists
     /\ calls # << >> /\ calls[Len(calls)].outcome = "ok")
        => response.status = 404

\* What C12 asks of a stored geofence: a non-empty name and a closed ring
\* of at least 4 vertices.
WellFormedFence(g) ==
    /\ IsString(g.name) /\ Len(g.name.chars) > 0
    /\ Len(g.boundary) >= 4
    /\ g.boundary[1] = g.boundary[Len(g.boundary)]

\* The create request being served has an empty name, fewer than 4
\* vertices or a ring that is not closed.
C12_BadCreate ==
    /\ IsFence("create")
    /\ \/ ~IsString(request.name) \/ Len(request.name.chars) = 0
       \/ ~request.polygon.isArray
       \/ Len(request.polygon.ring) < 4
       \/ request.polygon.ring[1] # request.polygon.ring[Len(request.polygon.ring)]

C12_State ==
    /\ \A k \in 1..Len(geofences) : WellFormedFence(geofences[k])
    /\ (Answered /\ C12_BadCreate) => response.status = 400

\* The table changes only by gaining the fence of a create request that is
\* none of the above.
C12_Step ==
    geofences' # geofences =>
        /\ IsFence("create") /\ ~C12_BadCreate
        /\ Len(geofences') = Len(geofences) + 1
        /\ SubSeq(geofences', 1, Len(geofences)) = geofences
        /\ geofences'[Len(geofences')].name = request.name
        /\ geofences'[Len(geofences')].boundary = request.polygon.ring

\* C12: geofence create rejects, and stores nothing for, a request whose
\* name is empty, whose polygon has fewer than 4 vertices or whose first
\* vertex differs from its last; after any sequence of create requests
\* every stored geofence has a non-empty name and a closed ring of at
\* least 4 vertices.
Thm_C12_OnlyWellFormedFences == []C12_State /\ [][C12_Step]_vars

\* After a fence was created, a create request whose ring of 4 vertices
\* is not closed was refused, and the table is as it was.
Witness_C12_RefusedAfterCreate ==
    /\ Answered /\ C12_BadCreate
    /\ IsString(request.name) /\ Len(request.name.chars) > 0
    /\ request.polygon.isArray /\ Len(request.polygon.ring) = 4
    /\ response.status = 400
    /\ \E k \in 1..Len(geofences) : geofences[k].name = JStr(<< "D" >>)

\* On which side of the edge from a to b the point lies: positive to the
\* left, negative to the right, 0 on the line through them.
C13_Side(a, b, pt) ==
    (b[1] - a[1]) * (pt.lat - a[2]) - (b[2] - a[2]) * (pt.lon - a[1])

\* A convex ring contains a point, boundary included, exactly when the
\* point is never on the outer side of an edge.  (Every ring of the model
\* is a triangle or a rectangle.)
C13_Contains(ring, pt) ==
    LET edges == 1..(Len(ring) - 1) IN
    \/ \A k \in edges : C13_Side(ring[k], ring[k + 1], pt) >= 0
    \/ \A k \in edges : C13_Side(ring[k], ring[k + 1], pt) <= 0

C13_Point == st_point(request.lon.val, request.lat.val)

C13_ValidPoint ==
    /\ IsNumber(request.lat) /\ IsNumber(request.lon)
    /\ request.lat.val >= Degrees(-90) /\ request.lat.val <= Degrees(90)
    /\ request.lon.val >= Degrees(-180) /\ request.lon.val <= Degrees(180)

\* C13: a check of a point that the record store answers succeeds and
\* returns exactly the stored geofences whose polygon contains the point,
\* boundary included, each once; with none it is the empty set with
\* inside = false and count = 0, and inside is true exactly when count > 0.
\* So a geofence a create stored is returned by a later check of a point
\* inside it.
Inv_C13_CheckReturnsCoveringFences ==
    (/\ Answered /\ IsFence("check") /\ C13_ValidPoint
     /\ calls # << >> /\ calls[Len(calls)].outcome = "ok") =>
        LET F == response.body.fences IN
        /\ response.status = 200
        /\ { F[k].id : k \in 1..Len(F) }
             = { geofences[k].id : k \in { j \in 1..Len(geofences) :
                                             C13_Contains(geofences[j].boundary, C13_Point) } }
        /\ \A k \in 1..Len(F) : /\ F[k].name = geofences[F[k].id].name
                                /\ F[k].boundary = geofences[F[k].id].boundary
        /\ \A j, k \in 1..Len(F) : j # k => F[j].id # F[k].id
        /\ response.body.count = Len(F)
        /\ response.body.inside = (response.body.count > 0)

\* A check of a point on the edge of a fence created earlier returned that
\* fence, and not every fence of the table.
Witness_C13_CreatedFenceOnEdge ==
    /\ Answered /\ IsFence("check") /\ response.status = 200
    /\ request.lon.val = Meridian /\ request.lat.val = SquareRing[3][2]
    /\ \E k \in 1..Len(response.body.fences) :
          response.body.fences[k].name = JStr(<< "D" >>)
    /\ response.body.count < Len(geofences)

(***************************************************************************)
(* Clustering.                                                             *)
(***************************************************************************)
ClusterAnswered == request.fn = "spatial-cluster" /\ Answered /\ response.status = 200

\* Two stored records are within eps (cluster_distance_m / 111320 degrees)
\* of each other.
C14_Near(j, k) ==
    /\ geo_registry[j].coordinates.lon = geo_registry[k].coordinates.lon
    /\ Abs(geo_registry[j].coordinates.lat - geo_registry[k].coordinates.lat) * MmPerUnit
         <= request.cluster_distance_m.val

\* The records within the radius with at least minPoints records within
\* the radius within eps of them, themselves included.
C14_Dense ==
    { k \in InRadius :
        Cardinality({ j \in InRadius : C14_Near(j, k) }) >= request.min_points.val }

\* The stored records a returned cluster names.
C14_Members(c) ==
    { k \in 1..Len(geo_registry) :
        \E a \in 1..Len(c.addresses) : c.addresses[a] = geo_registry[k].raw_address }

\* C14: a clustering that succeeds returns dense clusters only.  Every
\* cluster has a dense record, and each of its members is dense or within
\* eps of a dense member; a record within eps of no dense record is in no
\* cluster, so without dense records (minPoints 3 and 2 points) the result
\* is empty.  No record is in two clusters, pointCount is the number of
\* member addresses, and the clusters come in non-increasing pointCount.
Inv_C14_OnlyDenseClusters ==
    ClusterAnswered =>
        LET C == response.body.clusters IN
        /\ response.body.count = Len(C)
        /\ \A k \in 1..Len(C) :
              /\ C[k].point_count = Len(C[k].addresses)
              /\ Cardinality(C14_Members(C[k])) = Len(C[k].addresses)
              /\ C14_Members(C[k]) \subseteq InRadius
              /\ C14_Members(C[k]) \cap C14_Dense # {}
              /\ \A m \in C14_Members(C[k]) :
                    \E d \in C14_Members(C[k]) \cap C14_Dense : C14_Near(m, d)
        /\ \A j, k \in 1..Len(C) : j # k => C14_Members(C[j]) \cap C14_Members(C[k]) = {}
        /\ \A k \in 1..Len(C) - 1 : C[k].point_count >= C[k + 1].point_count
        /\ C14_Dense = {} => C = << >>

\* Two records within eps of each other and minPoints 3: the clustering
\* succeeded with no cluster.
Witness_C14_TwoPointsNoCluster ==
    /\ ClusterAnswered
    /\ InRadius = {1, 2} /\ C14_Near(1, 2)
    /\ request.min_points.val = 3
    /\ response.body.clusters = << >>

\* The partition a clustering result makes of the records, with the
\* average confidence of each part; the cluster ids are left out.
C15_Partition(data) ==
    { [members        |-> { data[k].addresses[a] : a \in 1..Len(data[k].addresses) },
       avg_confidence |-> data[k].avg_confidence] : k \in 1..Len(data) }

\* C15 as claimed: for the registry and the parameters of a clustering
\* request, any two runs of the clustering give the same partition of the
\* records into clusters and the same average confidence per cluster.
C15_Claim_Deterministic ==
    pc = "c_rpc" =>
        \A a, b \in ClusterAnswers :
            (~a.error /\ ~b.error) => C15_Partition(a.data) = C15_Partition(b.data)

(***************************************************************************)
(* Requests served at the same time.                                       *)
(***************************************************************************)
\* C16 as claimed: at any time at most one provider call issued by batch
\* geocoding is in flight, also with two batch-geocode requests served at
\* the same time, and a provider call that follows another of its request
\* starts no sooner than the mandatory delay after it.
C16_Claim_OneCallInFlight ==
    /\ inFlight <= 1
    /\ (pc = "b_fetch" /\ Cardinality(CallsTo("provider")) >= 2)
          => callGap >= NOMINATIM_DELAY_MS
    /\ (peer.pc = "b_fetch"
        /\ Cardinality({ k \in 1..Len(peer.calls) : peer.calls[k].svc = "provider" }) >= 2)
          => peer.callGap >= NOMINATIM_DELAY_MS

(***************************************************************************)
(* Termination.                                                            *)
(***************************************************************************)
\* C17 as claimed: every forward, reverse and batch geocoding request
\* eventually produces a response, also when a provider call never
\* answers: a timeout ends the call.
C17_Claim_EveryRequestAnswered ==
    (request.fn \in {"geocode", "reverse-geocode", "batch-geocode"}) ~> (pc = "done")

(***************************************************************************)
(* Cancellation.                                                           *)
(***************************************************************************)
\* C18 as claimed: once the caller has cancelled a batch-geocode request,
\* the loop stops at its next iteration boundary: no further provider call
\* is issued, and the results gathered so far are kept.
C18_Claim_NoCallAfterCancel ==
    [][cancelled =>
         /\ { k \in 1..Len(calls') : calls'[k].svc = "provider" } = CallsTo("provider")
         /\ Len(results') >= Len(results)]_vars

(***************************************************************************)
(* No call is repeated.                                                    *)
(***************************************************************************)
\* The address is a string with a character that is no white space.
C19_NonBlank(a) == IsString(a) /\ \E k \in 1..Len(a.chars) : a.chars[k] # " "

\* The addresses (0-based) the loop of a batch request has taken up.
C19_TakenUp == 0..(i - 1 + (IF pc \in {"b_sleep", "b_fetch"} THEN 1 ELSE 0))

\* The indexes of the provider calls of the request, in the order issued.
C19_ProviderCalls ==
    LET issued == SelectSeq(calls, LAMBDA c : c.svc = "provider") IN
    [k \in 1..Len(issued) |-> issued[k].idx]

\* C19: no provider or storage call is repeated.  A forward or reverse
\* geocoding request makes at most one provider call and at most one
\* insert.  A batch request has made one provider call, in input order,
\* for each non-blank string address it has taken up, whatever the earlier
\* calls gave, and none for an empty, white-space or non-string address;
\* so at its end it has made exactly one per non-blank string address.
Inv_C19_NoRepeatedCalls ==
    /\ request.fn \in {"geocode", "reverse-geocode"} =>
          /\ Cardinality(CallsTo("provider")) <= 1
          /\ Cardinality(CallsTo("store")) <= 1
    /\ (BatchAccepted /\ pc # "b_auth") =>
          LET P == C19_ProviderCalls
              due == { j \in C19_TakenUp \cap 0..(Len(request.addresses) - 1) :
                         C19_NonBlank(request.addresses[j + 1]) }
              started == IF pc = "b_sleep" THEN due \ {i} ELSE due
          IN  /\ \A k \in 1..Len(P) - 1 : P[k] < P[k + 1]
              /\ { P[k] : k \in 1..Len(P) } = started
              /\ Cardinality(CallsTo("store")) <= 1
    /\ LoopCompleted =>
          Len(C19_ProviderCalls)
            = Cardinality({ j \in 1..Len(request.addresses) :
                              C19_NonBlank(request.addresses[j]) })

\* A batch of three addresses has run to its end: the provider failed on
\* the first, the second is white space, and the third was still called,
\* once.
Witness_C19_CalledOnceAfterFailure ==
    /\ LoopCompleted /\ Answered
    /\ Len(request.addresses) = 3
    /\ request.addresses[2] = JStr(<< " " >>)
    /\ C19_ProviderCalls = << 0, 2 >>
    /\ \E k \in CallsTo("provider") :
          calls[k].idx = 0 /\ calls[k].outcome \in {"throw", "non2xx"}

====
